---- MODULE Spec2Model ----
(***************************************************************************)
(* A model of the private directory tree of rs-wnfs                        *)
(* (wnfs/src/private/directory.rs, wnfs/src/private/node/header.rs).       *)
(*                                                                         *)
(* The in-memory tree is a heap of reference-counted nodes (Rc): a handle  *)
(* or a directory entry holds an address, Rc::clone copies the address and *)
(* Rc::make_mut copies the node when the address is shared.  The OnceCell  *)
(* persisted_as is written through shared references by store(), so it is *)
(* a field of the heap cell.  The block store maps CIDs to blocks and the  *)
(* forest maps saturated-name hashes to sets of CIDs.                      *)
(*                                                                         *)
(* Abstractions: hashes, key derivations and encryptions are injective     *)
(* constructors (a CID is the tagged value it hashes, a key is the ratchet *)
(* state it is derived from), a namefilter is the set of elements added to *)
(* it, random 32-byte values (inumbers, ratchet seeds, AEAD nonces) are    *)
(* drawn from a counter so that every draw is fresh.                       *)
(***************************************************************************)
EXTENDS Naturals, Sequences, FiniteSets, TLC

\* ------------------------------------------------------------------ bounds

\* Number of operations a behaviour performs after the initial state.
MaxOps == 2

\* Names in lexicographic order; Rank gives a name's position in that order.
Names == <<"a", "b">>
NameSet == {Names[i] : i \in 1..Len(Names)}
Rank(n) == CHOOSE i \in 1..Len(Names) : Names[i] = n

\* Paths handed to the path operations (one or two segments).
Paths == {<<n>> : n \in NameSet} \cup {<<n, m>> : n \in NameSet, m \in NameSet}

\* The destinations handed to basic_mv: the paths, and one of three segments.
MvTargets == Paths \cup {<<"a", "b", "a">>}

\* The sources and the destinations handed to cp_link.
LinkSources == {<<"a">>, <<"a", "a">>}
LinkTargets == {<<"b">>, <<"a", "b">>, <<"b", "a">>}

\* The greatest number of bytes of a block (scaled down), the values handed
\* to put_serializable (vectors of bytes), and the number of calls made on a
\* block store.
MAX_BLOCK_SIZE == 4
Values == {<<>>, <<0>>, <<23>>, <<24>>, <<0, 24>>, <<24, 255>>, <<0, 0, 0>>, <<24, 255, 0>>}
MaxBlockOps == 3

\* The blocks handed to put_block of a network client: of no byte, of one,
\* of MAX_BLOCK_SIZE bytes and of one more; and the codecs.
Blocks == {[i \in 1..n |-> i] : n \in {0, 1, MAX_BLOCK_SIZE, MAX_BLOCK_SIZE + 1}}
Codecs == {"raw", "dag-cbor"}

\* The connections a network server accepts.
MaxConns == 3

\* The bytes of two CIDs of version 1 and codec raw: one with an identity
\* hash of no byte, one with a SHA-256 hash.
ShortCid == <<1, 85, 0, 0>>
LongCid == <<1, 85, 18, 32>> \o [i \in 1..32 |-> 7]

\* The requests of the server's protocol: opcode, length of the CID, CID,
\* payload.
WriteRequest(cid, payload) == <<0, Len(cid)>> \o cid \o payload
ReadRequest(cid) == <<1, Len(cid)>> \o cid

\* What the connections send: writes and reads of the two CIDs, no byte, one
\* byte, a CID cut short and bytes that are no CID.
Requests ==
    {WriteRequest(LongCid, <<>>), WriteRequest(LongCid, <<5>>), WriteRequest(LongCid, <<6, 7>>),
     WriteRequest(ShortCid, <<5>>), ReadRequest(LongCid), ReadRequest(ShortCid),
     <<>>, <<0>>, <<0, 4, 1>>, <<1, 2, 9, 9>>}

\* How far below a node two trees are compared.
SeenDepth == 3

\* File contents handed to write.
Bytes == {"One", "Two"}

\* The two Rc handles a program holds on (revisions of) the tree: root, and
\* the handle that Rc::clone of one makes of the other.
Handles == {"root", "clone"}

\* ------------------------------------------------------------------ values

NoAddr == 0

ZeroRatchet == [seed |-> 0, step |-> 0]
ZeroHeader == [inumber |-> 0, ratchet |-> ZeroRatchet, bare_name |-> {}]

\* CIDs.  A raw content block is AEAD-encrypted under a random nonce, so its
\* CID is fresh for every put (n); header blocks are wrapped deterministically,
\* so their CID is determined by what they wrap (hdr).
NoCid == [tag |-> "none", hdr |-> ZeroHeader, n |-> 0]
ContentCid(n) == [tag |-> "content", hdr |-> ZeroHeader, n |-> n]
FieldCid(field, h) == [tag |-> field, hdr |-> h, n |-> 0]

\* Ratchet (skip_ratchet::Ratchet): zero(seed), inc, inc_by.
RatchetZero(seed) == [seed |-> seed, step |-> 0]
RatchetInc(r) == [r EXCEPT !.step = @ + 1]
RatchetIncBy(r, k) == [r EXCEPT !.step = @ + k]

\* TemporalKey::from(&ratchet) and TemporalKey::derive_snapshot_key.
TemporalKeyFrom(r) == [kind |-> "temporal", seed |-> r.seed, step |-> r.step]
DeriveSnapshotKey(tk) == [kind |-> "snapshot", seed |-> tk.seed, step |-> tk.step]
ZeroKey == [kind |-> "temporal", seed |-> 0, step |-> 0]

\* Namefilter: add and contains.
NamefilterAdd(nf, x) == nf \cup {x}
NamefilterContains(nf, x) == x \in nf

\* Encrypted::from_value(cid, key) and its inverse.
EncryptedFromValue(cid, key) == [cid |-> cid, key |-> key]

\* Metadata::new(time) and upsert_mtime(time).
MetadataNew(time) == [created |-> time, modified |-> time]
UpsertMtime(md, time) == [md EXCEPT !.modified = time]

\* ------------------------------------------------------------------ header.rs

\* The mutant of HeaderWithSeed: the bare name holds the inumber alone.
HeaderWithSeedAlone(parent_bare_name, ratchet_seed, inumber) ==
    [inumber |-> inumber, ratchet |-> RatchetZero(ratchet_seed), bare_name |-> {inumber}]

\* PrivateNodeHeader::with_seed
HeaderWithSeed(parent_bare_name, ratchet_seed, inumber) ==
    [inumber |-> inumber,
     ratchet |-> RatchetZero(ratchet_seed),
     bare_name |-> NamefilterAdd(parent_bare_name, inumber)]

\* The mutant of AdvanceRatchet: the ratchet moves two steps.
AdvanceRatchetTwice(h) == [h EXCEPT !.ratchet = RatchetIncBy(@, 2)]

\* PrivateNodeHeader::advance_ratchet
AdvanceRatchet(h) == [h EXCEPT !.ratchet = RatchetInc(@)]

\* PrivateNodeHeader::update_bare_name
UpdateBareName(h, parent_bare_name) ==
    [h EXCEPT !.bare_name = NamefilterAdd(parent_bare_name, h.inumber)]

\* PrivateNodeHeader::reset_ratchet
ResetRatchet(h, seed) == [h EXCEPT !.ratchet = RatchetZero(seed)]

\* PrivateNodeHeader::derive_temporal_key
DeriveTemporalKey(h) == TemporalKeyFrom(h.ratchet)

\* PrivateNodeHeader::get_saturated_name_with_key: the bare name with the
\* temporal key added, saturated.
GetSaturatedNameWithKey(h, tk) == [bare |-> h.bare_name, key |-> tk]

\* PrivateNodeHeader::get_saturated_name
GetSaturatedName(h) == GetSaturatedNameWithKey(h, DeriveTemporalKey(h))

\* PrivateNodeHeader::get_saturated_name_hash (Sha3_256 of the saturated name)
GetSaturatedNameHash(h) == [sha3 |-> GetSaturatedName(h)]

\* PrivateNodeHeader::derive_revision_ref
DeriveRevisionRef(h) ==
    [saturated_name_hash |-> GetSaturatedNameHash(h),
     temporal_key |-> DeriveTemporalKey(h)]

\* RevisionRef::as_private_ref
AsPrivateRef(rr, content_cid) ==
    [saturated_name_hash |-> rr.saturated_name_hash,
     temporal_key |-> rr.temporal_key,
     content_cid |-> content_cid]

\* The header with only the field a wrapped field block holds, under the key
\* that wraps it (the ratchet determines both keys).
FieldOnly(field, h) ==
    CASE field = "inumber" -> [ZeroHeader EXCEPT !.inumber = h.inumber, !.ratchet = h.ratchet]
      [] field = "ratchet" -> [ZeroHeader EXCEPT !.ratchet = h.ratchet]
      [] OTHER -> [ZeroHeader EXCEPT !.bare_name = h.bare_name, !.ratchet = h.ratchet]

HeaderFieldCid(field, h) == FieldCid(field, FieldOnly(field, h))
HeaderMapCid(h) == FieldCid("header", h)

\* The mutant of HeaderStore: no block is put.
HeaderStoreNothing(h, store) == store

\* PrivateNodeHeader::store: three wrapped field blocks, then the map block
\* that links them; returns the store after the four puts.
HeaderStore(h, store) ==
    LET tk == DeriveTemporalKey(h)
        sk == DeriveSnapshotKey(tk)
        map == [kind |-> "map",
                inumber |-> HeaderFieldCid("inumber", h),
                ratchet |-> HeaderFieldCid("ratchet", h),
                bare_name |-> HeaderFieldCid("bare_name", h)]
    IN (HeaderMapCid(h) :> map)
       @@ (HeaderFieldCid("bare_name", h) :> [kind |-> "wrapped", key |-> sk, value |-> h.bare_name])
       @@ (HeaderFieldCid("ratchet", h) :> [kind |-> "wrapped", key |-> tk, value |-> h.ratchet])
       @@ (HeaderFieldCid("inumber", h) :> [kind |-> "wrapped", key |-> sk, value |-> h.inumber])
       @@ store

\* Ipld values of a header map block.  Ipld::Link(cid) is the cid itself; a
\* key the map does not hold, and a value that is no link, have their own tags.
NoEntry == [tag |-> "absent", hdr |-> ZeroHeader, n |-> 0]
IpldString == [tag |-> "string", hdr |-> ZeroHeader, n |-> 0]
IsLink(v) == v.tag \notin {"absent", "string"}

\* The mutant of LoadTemporal: whatever the store holds, a header comes back.
LoadTemporalAnyway(cid, tk, store) == [ok |-> TRUE, header |-> ZeroHeader]

\* PrivateNodeHeader::load_temporal: the header read back through the map
\* block, or an error.
LoadTemporal(cid, tk, store) ==
    LET sk == DeriveSnapshotKey(tk) IN
    IF cid \notin DOMAIN store \/ store[cid].kind # "map" THEN [ok |-> FALSE, header |-> ZeroHeader]
    ELSE LET map == store[cid] IN
         IF ~IsLink(map.inumber) \/ ~IsLink(map.ratchet) \/ ~IsLink(map.bare_name)
         THEN [ok |-> FALSE, header |-> ZeroHeader]
         ELSE
         IF \/ map.inumber \notin DOMAIN store
            \/ map.ratchet \notin DOMAIN store
            \/ map.bare_name \notin DOMAIN store
         THEN [ok |-> FALSE, header |-> ZeroHeader]
         ELSE LET bi == store[map.inumber]
                  br == store[map.ratchet]
                  bb == store[map.bare_name]
              IN IF bi.key = sk /\ br.key = tk /\ bb.key = sk
                 THEN [ok |-> TRUE,
                       header |-> [inumber |-> bi.value, ratchet |-> br.value,
                                   bare_name |-> bb.value]]
                 ELSE [ok |-> FALSE, header |-> ZeroHeader]

\* The mutant of LoadSnapshot: the ratchet is read as load_temporal reads it.
LoadSnapshotWithRatchet(cid, sk, store) ==
    LoadTemporal(cid, [sk EXCEPT !.kind = "temporal"], store)

\* PrivateNodeHeader::load_snapshot: inumber and bare_name read back through
\* the map block, the ratchet a placeholder; the map's ratchet entry is not
\* looked at.
LoadSnapshot(cid, sk, store) ==
    IF cid \notin DOMAIN store \/ store[cid].kind # "map" THEN [ok |-> FALSE, header |-> ZeroHeader]
    ELSE LET map == store[cid] IN
         IF ~IsLink(map.inumber) \/ ~IsLink(map.bare_name)
         THEN [ok |-> FALSE, header |-> ZeroHeader]
         ELSE
         IF \/ map.inumber \notin DOMAIN store
            \/ map.bare_name \notin DOMAIN store
         THEN [ok |-> FALSE, header |-> ZeroHeader]
         ELSE LET bi == store[map.inumber]
                  bb == store[map.bare_name]
              IN IF bi.key = sk /\ bb.key = sk
                 THEN [ok |-> TRUE,
                       header |-> [inumber |-> bi.value, ratchet |-> RatchetZero(0),
                                   bare_name |-> bb.value]]
                 ELSE [ok |-> FALSE, header |-> ZeroHeader]

\* ------------------------------------------------------------------ BTreeMap

\* A sequence given as a function on 1..n, every element evaluated once.
AsSeq(f) == SubSeq(f, 1, Len(f))

\* let: v is evaluated, once, before Op is entered with it.
With(v, Op(_)) == IF {v} = {} THEN Op(v) ELSE Op(v)

\* entries: BTreeMap<String, PrivateLink>, a sequence of [name, link] in the
\* map's key order.
MapNames(m) == {m[i].name : i \in 1..Len(m)}
MapContainsKey(m, k) == k \in MapNames(m)
MapGet(m, k) == (CHOOSE i \in 1..Len(m) : m[i].name = k)
MapLink(m, k) == m[MapGet(m, k)].link

\* The mutant of MapInsert: the map keeps only the inserted pair.
MapInsertAlone(m, k, link) == <<[name |-> k, link |-> link]>>

\* The mutant of MapInsert: a new key goes to the end, whatever its rank.
MapInsertAppend(m, k, link) ==
    IF MapContainsKey(m, k)
    THEN [m EXCEPT ![MapGet(m, k)] = [name |-> k, link |-> link]]
    ELSE Append(m, [name |-> k, link |-> link])

\* BTreeMap::insert: replaces the value of an existing key, otherwise places
\* the pair after every smaller key.
MapInsert(m, k, link) ==
    IF MapContainsKey(m, k)
    THEN [m EXCEPT ![MapGet(m, k)] = [name |-> k, link |-> link]]
    ELSE LET lo == SelectSeq(m, LAMBDA e : Rank(e.name) < Rank(k))
             hi == SelectSeq(m, LAMBDA e : Rank(e.name) > Rank(k))
         IN lo \o <<[name |-> k, link |-> link]>> \o hi

\* BTreeMap::remove
MapRemove(m, k) == SelectSeq(m, LAMBDA e : e.name # k)

\* ------------------------------------------------------------------ links and nodes

NoRef == [saturated_name_hash |-> GetSaturatedNameHash(ZeroHeader),
          temporal_key |-> ZeroKey,
          content_cid |-> NoCid]

\* PrivateLink: a materialised node (an Rc, here a heap address) or a
\* PrivateRef to be loaded from the store.
NodeLink(a) == [tag |-> "node", addr |-> a, ref |-> NoRef]
RefLink(r) == [tag |-> "ref", addr |-> NoAddr, ref |-> r]

WNFS_VERSION == [major |-> 0, minor |-> 2, patch |-> 0]

\* The mutant of DirWithSeed: the ratchet is seeded with the time.
DirWithSeedTimed(parent_bare_name, time, ratchet_seed, inumber) ==
    [kind |-> "dir",
     header |-> HeaderWithSeed(parent_bare_name, time, inumber),
     persisted_as |-> NoCid,
     previous |-> {},
     metadata |-> MetadataNew(time),
     entries |-> <<>>,
     content |-> ""]

\* PrivateDirectory::with_seed
DirWithSeed(parent_bare_name, time, ratchet_seed, inumber) ==
    [kind |-> "dir",
     header |-> HeaderWithSeed(parent_bare_name, ratchet_seed, inumber),
     persisted_as |-> NoCid,
     previous |-> {},
     metadata |-> MetadataNew(time),
     entries |-> <<>>,
     content |-> ""]

\* PrivateFile::with_content (inline content)
FileWithContent(parent_bare_name, time, ratchet_seed, inumber, content) ==
    [kind |-> "file",
     header |-> HeaderWithSeed(parent_bare_name, ratchet_seed, inumber),
     persisted_as |-> NoCid,
     previous |-> {},
     metadata |-> MetadataNew(time),
     entries |-> <<>>,
     content |-> content]

NoNode == [kind |-> "none", header |-> ZeroHeader, persisted_as |-> NoCid, previous |-> {},
           metadata |-> MetadataNew(0), entries |-> <<>>, content |-> ""]

\* ------------------------------------------------------------------ loading

\* PrivateRef::to_serializable(parent temporal key): the child's temporal key
\* is wrapped with the parent's temporal key.
RefToSerializable(ref, parent_key) ==
    [saturated_name_hash |-> ref.saturated_name_hash,
     content_cid |-> ref.content_cid,
     wrapped_key |-> [key |-> ref.temporal_key, under |-> parent_key]]

\* PrivateRef::from_serializable(serializable, parent temporal key)
RefFromSerializable(s, parent_key) ==
    [ok |-> s.wrapped_key.under = parent_key,
     ref |-> [saturated_name_hash |-> s.saturated_name_hash,
              temporal_key |-> s.wrapped_key.key,
              content_cid |-> s.content_cid]]

\* PrivateDirectory::from_serializable_temporal (and its PrivateFile
\* counterpart): version gate, entries decrypted into Encrypted links,
\* persisted_as = Some(cid), header loaded through header_cid.
FromSerializableTemporal(serializable, temporal_key, cid, store) ==
    LET refs == AsSeq([i \in 1..Len(serializable.entries) |->
                         RefFromSerializable(serializable.entries[i].ref, temporal_key)])
        hdr == LoadTemporal(serializable.header_cid, temporal_key, store)
    IN IF serializable.version.major # 0 \/ serializable.version.minor # 2
       THEN [ok |-> FALSE, err |-> "UnexpectedVersion", node |-> NoNode,
             found |-> serializable.version]
       ELSE IF \E i \in 1..Len(refs) : ~refs[i].ok
       THEN [ok |-> FALSE, err |-> "CryptoError", node |-> NoNode]
       ELSE IF ~hdr.ok
       THEN [ok |-> FALSE, err |-> "HeaderError", node |-> NoNode]
       ELSE [ok |-> TRUE, err |-> "",
             node |-> [kind |-> serializable.kind,
                       header |-> hdr.header,
                       persisted_as |-> cid,
                       previous |-> serializable.previous,
                       metadata |-> serializable.metadata,
                       entries |-> AsSeq([i \in 1..Len(refs) |->
                                            [name |-> serializable.entries[i].name,
                                             link |-> RefLink(refs[i].ref)]]),
                       content |-> serializable.content]]

\* The mutant of FromSerializableSnapshot: only the major version is gated.
FromSerializableSnapshotMajor(serializable, snapshot_key, cid, store) ==
    IF serializable.version.major # 0
    THEN [ok |-> FALSE, err |-> "UnexpectedVersion", node |-> NoNode,
          found |-> serializable.version]
    ELSE [ok |-> FALSE, err |-> "HeaderError", node |-> NoNode]

\* PrivateDirectory::from_serializable_snapshot: version gate, every entry an
\* Encrypted link whose temporal key is the zero key, persisted_as = Some(cid),
\* header loaded through header_cid with the snapshot key.
FromSerializableSnapshot(serializable, snapshot_key, cid, store) ==
    LET hdr == LoadSnapshot(serializable.header_cid, snapshot_key, store)
    IN IF serializable.version.major # 0 \/ serializable.version.minor # 2
       THEN [ok |-> FALSE, err |-> "UnexpectedVersion", node |-> NoNode,
             found |-> serializable.version]
       ELSE IF ~hdr.ok
       THEN [ok |-> FALSE, err |-> "HeaderError", node |-> NoNode]
       ELSE [ok |-> TRUE, err |-> "",
             node |-> [kind |-> serializable.kind,
                       header |-> hdr.header,
                       persisted_as |-> cid,
                       previous |-> serializable.previous,
                       metadata |-> serializable.metadata,
                       entries |-> AsSeq([i \in 1..Len(serializable.entries) |->
                                   [name |-> serializable.entries[i].name,
                                    link |-> RefLink(
                                      [saturated_name_hash |->
                                           serializable.entries[i].ref.saturated_name_hash,
                                       temporal_key |-> ZeroKey,
                                       content_cid |->
                                           serializable.entries[i].ref.content_cid])]]),
                       content |-> serializable.content]]

\* PublicFile::from_serializable: version gate, then the file with
\* persisted_as unset.
PublicFileFromSerializable(serializable) ==
    IF serializable.version.major # 0 \/ serializable.version.minor # 2
    THEN [ok |-> FALSE, err |-> "UnexpectedVersion", found |-> serializable.version,
          file |-> [persisted_as |-> NoCid, metadata |-> MetadataNew(0),
                    userland |-> NoCid, previous |-> {}]]
    ELSE [ok |-> TRUE, err |-> "", found |-> serializable.version,
          file |-> [persisted_as |-> NoCid,
                    metadata |-> serializable.metadata,
                    userland |-> serializable.userland,
                    previous |-> serializable.previous]]

\* PrivateNode::load(private_ref): fetch the content block, decrypt it with
\* the snapshot key of the ref's temporal key, decode it.
LoadNode(ref, store) ==
    IF ref.content_cid \notin DOMAIN store \/ store[ref.content_cid].kind # "content"
    THEN [ok |-> FALSE, err |-> "NotFound", node |-> NoNode]
    ELSE IF store[ref.content_cid].key # DeriveSnapshotKey(ref.temporal_key)
    THEN [ok |-> FALSE, err |-> "CryptoError", node |-> NoNode]
    ELSE FromSerializableTemporal(store[ref.content_cid].node, ref.temporal_key,
                                  ref.content_cid, store)

\* PrivateLink::resolve_node: the node a link stands for.
ResolveNode(W, link) ==
    IF link.tag = "node" THEN W.heap[link.addr] ELSE LoadNode(link.ref, W.store).node

\* ------------------------------------------------------------------ search_latest

\* forest.has(saturated name hash of the header moved i steps ahead)
HasRevision(W, header, i) ==
    GetSaturatedNameHash([header EXCEPT !.ratchet = RatchetIncBy(@, i)]) \in DOMAIN W.forest

\* Binary search: lo is present, hi is absent.
RECURSIVE SeekBetween(_, _, _, _)
SeekBetween(W, header, lo, hi) ==
    IF hi - lo <= 1 THEN lo
    ELSE LET mid == (lo + hi) \div 2 IN
         IF HasRevision(W, header, mid) THEN SeekBetween(W, header, mid, hi)
         ELSE SeekBetween(W, header, lo, mid)

\* Exponential probe: double i while the revision i steps ahead is present.
RECURSIVE SeekLatest(_, _, _)
SeekLatest(W, header, i) ==
    IF HasRevision(W, header, i) THEN SeekLatest(W, header, 2 * i)
    ELSE SeekBetween(W, header, i \div 2, i)

\* The content CID the forest yields first for a label that holds several.
PickContent(W, label) ==
    LET cands == {c \in W.forest[label] : c.tag = "content"} IN
    IF W.ord = "min" THEN CHOOSE c \in cands : \A d \in cands : c.n <= d.n
    ELSE CHOOSE c \in cands : \A d \in cands : c.n >= d.n

\* PrivateNode::search_latest: a node whose own label is not in the forest is
\* its own latest revision; otherwise the greatest revision found by the probe
\* is loaded from the forest.  self tells whether the node itself is returned.
SearchLatest(W, node) ==
    IF ~HasRevision(W, node.header, 0) THEN [self |-> TRUE, node |-> node]
    ELSE LET i == SeekLatest(W, node.header, 1)
             h == [node.header EXCEPT !.ratchet = RatchetIncBy(@, i)]
             rr == DeriveRevisionRef(h)
             cid == PickContent(W, rr.saturated_name_hash)
         IN [self |-> FALSE, node |-> LoadNode(AsPrivateRef(rr, cid), W.store).node]

\* ------------------------------------------------------------------ the Rc heap

\* W is the state the operations work on: heap (address -> node), roots
\* (handle -> address), forest, store, fresh (the last random value drawn)
\* and ord (the order in which the forest yields the CIDs of one label).

Min(S) == CHOOSE x \in S : \A y \in S : x <= y

\* A free address.
NewAddr(W) == Min({a \in 1..(Cardinality(DOMAIN W.heap) + 1) : a \notin DOMAIN W.heap})

SetCell(W, a, cell) ==
    IF a \in DOMAIN W.heap THEN [W EXCEPT !.heap[a] = cell]
    ELSE [W EXCEPT !.heap = (a :> cell) @@ @]

\* A place that holds an Rc: a handle, or the entry name of the directory at
\* address parent.
RootSlot(h) == [h |-> h, parent |-> NoAddr, name |-> ""]
EntrySlot(parent, name) == [h |-> "", parent |-> parent, name |-> name]

SlotGet(W, slot) ==
    IF slot.parent = NoAddr THEN W.roots[slot.h]
    ELSE MapLink(W.heap[slot.parent].entries, slot.name).addr

SlotSet(W, slot, a) ==
    IF slot.parent = NoAddr THEN [W EXCEPT !.roots[slot.h] = a]
    ELSE SetCell(W, slot.parent,
                 [W.heap[slot.parent] EXCEPT
                    !.entries = MapInsert(@, slot.name, NodeLink(a))])

\* Rc::strong_count: the handles, the local variable of a running operation
\* (see Hold) and the directory entries that hold the address.
StrongCount(W, a) ==
    Cardinality({h \in DOMAIN W.roots : W.roots[h] = a})
    + Cardinality({<<p, i>> \in (DOMAIN W.heap) \X (1..Len(Names)) :
                     /\ i <= Len(W.heap[p].entries)
                     /\ W.heap[p].entries[i].link.tag = "node"
                     /\ W.heap[p].entries[i].link.addr = a})

\* The mutant of MakeMut: mutates the node in place even when it is shared.
MakeMutInPlace(W, slot) == W

\* Rc::make_mut: a shared node is cloned into a new allocation that the slot
\* then holds; a node held once is mutated in place.
MakeMut(W, slot) ==
    LET a == SlotGet(W, slot) IN
    IF StrongCount(W, a) > 1
    THEN LET b == NewAddr(W) IN SlotSet(SetCell(W, b, W.heap[a]), slot, b)
    ELSE W

\* The mutant of PrepareNextRevision: the ratchet stays where it is.
PrepareNextRevisionSameRatchet(W, slot) ==
    LET a == SlotGet(W, slot)
        cell == W.heap[a]
        previous_link == <<1, EncryptedFromValue(cell.persisted_as, DeriveTemporalKey(cell.header))>>
        W1 == MakeMut(W, slot)
        a1 == SlotGet(W1, slot)
    IN IF cell.persisted_as = NoCid THEN W1
       ELSE SetCell(W1, a1, [W1.heap[a1] EXCEPT !.persisted_as = NoCid,
                                                !.previous = {previous_link}])

\* The mutant of PrepareNextRevision: keeps the previous links it had and adds
\* the new one even when the revision was never stored.
PrepareNextRevisionKeepPrevious(W, slot) ==
    LET a == SlotGet(W, slot)
        cell == W.heap[a]
        previous_link == <<1, EncryptedFromValue(cell.persisted_as, DeriveTemporalKey(cell.header))>>
        W1 == MakeMut(W, slot)
        a1 == SlotGet(W1, slot)
    IN SetCell(W1, a1, [W1.heap[a1] EXCEPT !.persisted_as = NoCid,
                                           !.previous = @ \cup {previous_link},
                                           !.header = AdvanceRatchet(@)])

\* PrivateDirectory::prepare_next_revision on the Rc in slot.
PrepareNextRevision(W, slot) ==
    With(W.heap[SlotGet(W, slot)], LAMBDA cell :
       IF cell.persisted_as = NoCid
       THEN MakeMut(W, slot)
       ELSE With(DeriveTemporalKey(cell.header), LAMBDA temporal_key :
            With(<<1, EncryptedFromValue(cell.persisted_as, temporal_key)>>, LAMBDA previous_link :
            With(MakeMut(W, slot), LAMBDA W1 :
            With(SlotGet(W1, slot), LAMBDA a1 :
               SetCell(W1, a1, [W1.heap[a1] EXCEPT !.persisted_as = NoCid,
                                                   !.previous = {previous_link},
                                                   !.header = AdvanceRatchet(@)]))))))

\* PrivateFile::prepare_next_revision: the same bookkeeping on a file.
FilePrepareNextRevision(W, slot) ==
    With(W.heap[SlotGet(W, slot)], LAMBDA cell :
       IF cell.persisted_as = NoCid
       THEN MakeMut(W, slot)
       ELSE With(DeriveTemporalKey(cell.header), LAMBDA temporal_key :
            With(<<1, EncryptedFromValue(cell.persisted_as, temporal_key)>>, LAMBDA previous_link :
            With(MakeMut(W, slot), LAMBDA W1 :
            With(SlotGet(W1, slot), LAMBDA a1 :
               SetCell(W1, a1, [W1.heap[a1] EXCEPT !.persisted_as = NoCid,
                                                   !.previous = {previous_link},
                                                   !.header = AdvanceRatchet(@)]))))))

\* ------------------------------------------------------------------ lookups

\* PrivateDirectory::lookup_node on a directory value.
LookupNode(W, dir, path_segment, search_latest) ==
    IF ~MapContainsKey(dir.entries, path_segment) THEN [found |-> FALSE, node |-> NoNode]
    ELSE With(ResolveNode(W, MapLink(dir.entries, path_segment)), LAMBDA private_node :
         IF search_latest THEN [found |-> TRUE, node |-> SearchLatest(W, private_node).node]
         ELSE [found |-> TRUE, node |-> private_node])

\* PrivateLink::resolve_node_mut: an Encrypted link is loaded and becomes a
\* Decrypted link to the loaded node.
ResolveNodeMut(W, d, path_segment) ==
    LET link == MapLink(W.heap[d].entries, path_segment) IN
    IF link.tag = "node" THEN W
    ELSE LET b == NewAddr(W) IN
         SlotSet(SetCell(W, b, LoadNode(link.ref, W.store).node), EntrySlot(d, path_segment), b)

\* PrivateDirectory::lookup_node_mut on the directory at address d, which has
\* the entry: with search_latest the node in the entry is replaced by its
\* latest revision.
LookupNodeMut(W, d, path_segment, search_latest) ==
    With(ResolveNodeMut(W, d, path_segment), LAMBDA W1 :
       IF ~search_latest THEN W1
       ELSE With(SearchLatest(W1, W1.heap[SlotGet(W1, EntrySlot(d, path_segment))]),
                 LAMBDA latest :
               IF latest.self THEN W1
               ELSE LET b == NewAddr(W1) IN
                    SlotSet(SetCell(W1, b, latest.node), EntrySlot(d, path_segment), b)))

\* PrivateDirectory::get_leaf_dir, from a directory value.
RECURSIVE GetLeafDirFrom(_, _, _, _, _)
GetLeafDirFrom(W, working_dir, path_segments, depth, search_latest) ==
    IF depth > Len(path_segments)
    THEN [result |-> "Found", dir |-> working_dir, depth |-> depth - 1]
    ELSE With(LookupNode(W, working_dir, path_segments[depth], search_latest), LAMBDA r :
         IF ~r.found THEN [result |-> "Missing", dir |-> working_dir, depth |-> depth - 1]
         ELSE IF r.node.kind = "dir"
         THEN GetLeafDirFrom(W, r.node, path_segments, depth + 1, search_latest)
         ELSE [result |-> "NotADir", dir |-> working_dir, depth |-> depth - 1])

GetLeafDir(W, h, path_segments, search_latest) ==
    GetLeafDirFrom(W, W.heap[W.roots[h]], path_segments, 1, search_latest)

\* The loop of get_leaf_dir_mut from the directory at address d, which the
\* caller owns exclusively.
RECURSIVE GetLeafDirMutFrom(_, _, _, _, _)
GetLeafDirMutFrom(W, d, path_segments, depth, search_latest) ==
    IF depth > Len(path_segments)
    THEN [W |-> W, result |-> "Found", dir |-> d, depth |-> depth - 1]
    ELSE With(path_segments[depth], LAMBDA segment :
         With(LookupNode(W, W.heap[d], segment, search_latest), LAMBDA r :
            IF ~r.found THEN [W |-> W, result |-> "Missing", dir |-> d, depth |-> depth - 1]
            ELSE IF r.node.kind = "dir"
            THEN With(PrepareNextRevision(LookupNodeMut(W, d, segment, search_latest),
                                          EntrySlot(d, segment)), LAMBDA W2 :
                    GetLeafDirMutFrom(W2, SlotGet(W2, EntrySlot(d, segment)),
                                      path_segments, depth + 1, search_latest))
            ELSE [W |-> W, result |-> "NotADir", dir |-> d, depth |-> depth - 1]))

\* PrivateDirectory::get_leaf_dir_mut
GetLeafDirMut(W, h, path_segments, search_latest) ==
    With(PrepareNextRevision(W, RootSlot(h)), LAMBDA W1 :
       GetLeafDirMutFrom(W1, W1.roots[h], path_segments, 1, search_latest))

\* The Missing branch of get_or_create_leaf_dir_mut: an empty directory for
\* every remaining segment, each under the bare name of the one above it.
RECURSIVE CreateDirs(_, _, _, _, _)
CreateDirs(W, d, path_segments, depth, time) ==
    IF depth > Len(path_segments) THEN [W |-> W, dir |-> d]
    ELSE LET inumber == W.fresh + 1
             ratchet_seed == W.fresh + 2
             b == NewAddr(W)
             new == DirWithSeed(W.heap[d].header.bare_name, time, ratchet_seed, inumber)
             W1 == SetCell([W EXCEPT !.fresh = @ + 2], b, new)
             W2 == SlotSet(W1, EntrySlot(d, path_segments[depth]), b)
         IN CreateDirs(W2, b, path_segments, depth + 1, time)

\* PrivateDirectory::get_or_create_leaf_dir_mut
GetOrCreateLeafDirMut(W, h, path_segments, time, search_latest) ==
    With(GetLeafDirMut(W, h, path_segments, search_latest), LAMBDA r :
       CASE r.result = "Found" -> [W |-> r.W, err |-> "", dir |-> r.dir]
         [] r.result = "Missing" ->
              With(CreateDirs(r.W, r.dir, path_segments, r.depth + 1, time), LAMBDA c :
                 [W |-> c.W, err |-> "", dir |-> c.dir])
         [] OTHER -> [W |-> r.W, err |-> "NotADirectory", dir |-> NoAddr])

\* ------------------------------------------------------------------ reading

Front(path) == SubSeq(path, 1, Len(path) - 1)
Last(path) == path[Len(path)]

\* PrivateDirectory::get_node
GetNode(W, h, path_segments, search_latest) ==
    With(GetLeafDir(W, h, Front(path_segments), search_latest), LAMBDA r :
       IF r.result # "Found" THEN [found |-> FALSE, node |-> NoNode]
       ELSE LookupNode(W, r.dir, Last(path_segments), search_latest))

\* PrivateDirectory::read
Read(W, h, path_segments, search_latest) ==
    With(GetLeafDir(W, h, Front(path_segments), search_latest), LAMBDA r :
       IF r.result = "Found"
       THEN With(LookupNode(W, r.dir, Last(path_segments), search_latest), LAMBDA n :
               IF ~n.found THEN [err |-> "NotFound", bytes |-> ""]
               ELSE IF n.node.kind = "file" THEN [err |-> "", bytes |-> n.node.content]
               ELSE [err |-> "NotAFile", bytes |-> ""])
       ELSE [err |-> "NotFound", bytes |-> ""])

\* PrivateDirectory::ls: one (name, metadata) pair per entry, in the order the
\* entries map iterates.
Ls(W, h, path_segments, search_latest) ==
    With(GetLeafDir(W, h, path_segments, search_latest), LAMBDA r :
       CASE r.result = "Found" ->
              [err |-> "",
               list |-> AsSeq([i \in 1..Len(r.dir.entries) |->
                                 [name |-> r.dir.entries[i].name,
                                  metadata |-> ResolveNode(W, r.dir.entries[i].link).metadata]])]
         [] r.result = "NotADir" -> [err |-> "NotADirectory", list |-> <<>>]
         [] OTHER -> [err |-> "NotFound", list |-> <<>>])

\* ------------------------------------------------------------------ mutating

\* The mutant of Write: a new file is created with empty content.
WriteDropsContent(W, h, path_segments, search_latest, time, content) ==
    LET g == GetOrCreateLeafDirMut(W, h, Front(path_segments), time, search_latest)
        filename == Last(path_segments)
    IN IF g.err # "" THEN [W |-> g.W, err |-> g.err]
       ELSE IF MapContainsKey(g.W.heap[g.dir].entries, filename)
       THEN [W |-> g.W, err |-> "DirectoryAlreadyExists"]
       ELSE LET b == NewAddr(g.W)
                file == FileWithContent(g.W.heap[g.dir].header.bare_name, time,
                                        g.W.fresh + 2, g.W.fresh + 1, "")
                W1 == SetCell([g.W EXCEPT !.fresh = @ + 2], b, file)
            IN [W |-> SlotSet(W1, EntrySlot(g.dir, filename), b), err |-> ""]

\* The mutant of Write: an entry that is a directory is replaced by the file.
WriteOverDirectory(W, h, path_segments, search_latest, time, content) ==
    LET g == GetOrCreateLeafDirMut(W, h, Front(path_segments), time, search_latest)
        b == NewAddr(g.W)
        file == FileWithContent(g.W.heap[g.dir].header.bare_name, time,
                                g.W.fresh + 2, g.W.fresh + 1, content)
    IN IF g.err # "" THEN [W |-> g.W, err |-> g.err]
       ELSE [W |-> SlotSet(SetCell([g.W EXCEPT !.fresh = @ + 2], b, file),
                           EntrySlot(g.dir, Last(path_segments)), b),
             err |-> ""]

\* PrivateDirectory::write
Write(W, h, path_segments, search_latest, time, content) ==
    With(GetOrCreateLeafDirMut(W, h, Front(path_segments), time, search_latest), LAMBDA g :
    With(Last(path_segments), LAMBDA filename :
       IF g.err # "" THEN [W |-> g.W, err |-> g.err]
       ELSE IF MapContainsKey(g.W.heap[g.dir].entries, filename)
       THEN With(LookupNodeMut(g.W, g.dir, filename, search_latest), LAMBDA W1 :
            With(EntrySlot(g.dir, filename), LAMBDA slot :
               IF W1.heap[SlotGet(W1, slot)].kind = "file"
               THEN With(FilePrepareNextRevision(W1, slot), LAMBDA W2 :
                    With(SlotGet(W2, slot), LAMBDA f :
                       [W |-> SetCell(W2, f, [W2.heap[f] EXCEPT
                                                !.content = content,
                                                !.metadata = UpsertMtime(@, time)]),
                        err |-> ""]))
               ELSE [W |-> W1, err |-> "DirectoryAlreadyExists"]))
       ELSE With(NewAddr(g.W), LAMBDA b :
            With(FileWithContent(g.W.heap[g.dir].header.bare_name, time,
                                 g.W.fresh + 2, g.W.fresh + 1, content), LAMBDA file :
               [W |-> SlotSet(SetCell([g.W EXCEPT !.fresh = @ + 2], b, file),
                              EntrySlot(g.dir, filename), b),
                err |-> ""]))))

\* The mutant of Mkdir: reports success without creating anything.
MkdirNothing(W, h, path_segments, search_latest, time) == [W |-> W, err |-> ""]

\* PrivateDirectory::mkdir
Mkdir(W, h, path_segments, search_latest, time) ==
    With(GetOrCreateLeafDirMut(W, h, path_segments, time, search_latest), LAMBDA g :
       [W |-> g.W, err |-> g.err])

\* The mutant of Rm: reports success without removing the entry.
RmKeepsEntry(W, h, path_segments, search_latest) ==
    LET r == GetLeafDirMut(W, h, Front(path_segments), search_latest)
        node_name == Last(path_segments)
    IN IF r.result # "Found" THEN [W |-> r.W, err |-> "NotFound", node |-> NoNode]
       ELSE IF ~MapContainsKey(r.W.heap[r.dir].entries, node_name)
       THEN [W |-> r.W, err |-> "NotFound", node |-> NoNode]
       ELSE [W |-> r.W, err |-> "",
             node |-> ResolveNode(r.W, MapLink(r.W.heap[r.dir].entries, node_name))]

\* PrivateDirectory::rm: the removed node is returned to the caller.
Rm(W, h, path_segments, search_latest) ==
    With(GetLeafDirMut(W, h, Front(path_segments), search_latest), LAMBDA r :
    With(Last(path_segments), LAMBDA node_name :
       IF r.result # "Found" THEN [W |-> r.W, err |-> "NotFound", node |-> NoNode]
       ELSE IF ~MapContainsKey(r.W.heap[r.dir].entries, node_name)
       THEN [W |-> r.W, err |-> "NotFound", node |-> NoNode]
       ELSE With(r.W.heap[r.dir], LAMBDA dir :
               [W |-> SetCell(r.W, r.dir, [dir EXCEPT !.entries = MapRemove(@, node_name)]),
                err |-> "",
                node |-> ResolveNode(r.W, MapLink(dir.entries, node_name))])))

\* PrivateNode::update_ancestry on a node value: every node of the subtree is
\* made the caller's own (Rc::make_mut), gets the bare name of its new parent
\* with its own inumber added and a rotated key, keeps its inumber and loses
\* persisted_as.  Returns the address of the updated node.
RECURSIVE UpdateAncestry(_, _, _)
RECURSIVE UpdateAncestryEntries(_, _, _)
UpdateAncestryEntries(W, d, i) ==
    IF i > Len(W.heap[d].entries) THEN W
    ELSE With(W.heap[d].entries[i], LAMBDA e :
         With(UpdateAncestry(W, ResolveNode(W, e.link), W.heap[d].header.bare_name), LAMBDA c :
            UpdateAncestryEntries(SlotSet(c.W, EntrySlot(d, e.name), c.addr), d, i + 1)))

UpdateAncestry(W, node, parent_bare_name) ==
    With(NewAddr(W), LAMBDA b :
    With(ResetRatchet(UpdateBareName(node.header, parent_bare_name), W.fresh + 1), LAMBDA header :
       [W |-> UpdateAncestryEntries(
                 SetCell([W EXCEPT !.fresh = @ + 1], b,
                         [node EXCEPT !.header = header, !.persisted_as = NoCid]),
                 b, 1),
        addr |-> b]))

\* The mutant of Attach: the node is linked in as it is, its ancestry not updated.
AttachKeepsAncestry(W, node, h, path_segments, search_latest, time) ==
    LET r == GetLeafDirMut(W, h, Front(path_segments), search_latest)
        node_name == Last(path_segments)
    IN IF r.result # "Found" THEN [W |-> r.W, err |-> "NotFound"]
       ELSE IF MapContainsKey(r.W.heap[r.dir].entries, node_name)
       THEN [W |-> r.W, err |-> "FileAlreadyExists"]
       ELSE LET b == NewAddr(r.W)
                touched == [node EXCEPT !.metadata = UpsertMtime(@, time)]
            IN [W |-> SlotSet(SetCell(r.W, b, touched), EntrySlot(r.dir, node_name), b),
                err |-> ""]

\* PrivateDirectory::attach
Attach(W, node, h, path_segments, search_latest, time) ==
    With(GetLeafDirMut(W, h, Front(path_segments), search_latest), LAMBDA r :
    With(Last(path_segments), LAMBDA node_name :
       IF r.result # "Found" THEN [W |-> r.W, err |-> "NotFound"]
       ELSE IF MapContainsKey(r.W.heap[r.dir].entries, node_name)
       THEN [W |-> r.W, err |-> "FileAlreadyExists"]
       ELSE With(UpdateAncestry(r.W, [node EXCEPT !.metadata = UpsertMtime(@, time)],
                                r.W.heap[r.dir].header.bare_name), LAMBDA u :
               [W |-> SlotSet(u.W, EntrySlot(r.dir, node_name), u.addr), err |-> ""])))

\* The mutant of BasicMv: the node is attached at the destination and stays
\* at the source.
BasicMvKeepsSource(W, h, path_segments_from, path_segments_to, search_latest, time) ==
    LET result == GetNode(W, h, path_segments_from, search_latest) IN
    IF ~result.found THEN [W |-> W, err |-> "NotFound"]
    ELSE Attach(W, result.node, h, path_segments_to, search_latest, time)

\* PrivateDirectory::basic_mv
BasicMv(W, h, path_segments_from, path_segments_to, search_latest, time) ==
    With(Rm(W, h, path_segments_from, search_latest), LAMBDA removed :
       IF removed.err # "" THEN [W |-> removed.W, err |-> removed.err]
       ELSE Attach(removed.W, removed.node, h, path_segments_to, search_latest, time))

\* PrivateDirectory::cp
Cp(W, h, path_segments_from, path_segments_to, search_latest, time) ==
    With(GetNode(W, h, path_segments_from, search_latest), LAMBDA result :
       IF ~result.found THEN [W |-> W, err |-> "NotFound"]
       ELSE Attach(W, result.node, h, path_segments_to, search_latest, time))

\* The PrivateNode that get_node hands to its caller, as an Rc: the Rc of the
\* entry when the entry holds the node itself, and otherwise a new one for
\* the node that was loaded.
NodeRc(W, h, path_segments, search_latest, node) ==
    With(GetLeafDir(W, h, Front(path_segments), search_latest), LAMBDA r :
    With(MapLink(r.dir.entries, Last(path_segments)), LAMBDA link :
       IF link.tag = "node" /\ link.addr \in DOMAIN W.heap /\ W.heap[link.addr] = node
       THEN [W |-> W, addr |-> link.addr]
       ELSE With(NewAddr(W), LAMBDA b : [W |-> SetCell(W, b, node), addr |-> b])))

\* The mutant of Hold: the Rc is not counted while the operation runs.
HoldNothing(W, a) == W

\* A local variable of a running operation holds the Rc at address a, and
\* lets go of it when the operation returns.
Hold(W, a) == [W EXCEPT !.roots = ("local" :> a) @@ @]
Release(W) == [W EXCEPT !.roots = ("root" :> @["root"]) @@ ("clone" :> @["clone"])]

\* The mutant of AttachLink: an entry of the same name is replaced.
AttachLinkOverwrites(W, node, h, path_segments, search_latest) ==
    LET r == GetLeafDirMut(W, h, Front(path_segments), search_latest) IN
    IF r.result # "Found" THEN [W |-> r.W, err |-> "NotFound"]
    ELSE [W |-> SlotSet(r.W, EntrySlot(r.dir, Last(path_segments)), node), err |-> ""]

\* PrivateDirectory::attach_link: the Rc is linked in as it is.
AttachLink(W, node, h, path_segments, search_latest) ==
    With(GetLeafDirMut(W, h, Front(path_segments), search_latest), LAMBDA r :
    With(Last(path_segments), LAMBDA node_name :
       IF r.result # "Found" THEN [W |-> r.W, err |-> "NotFound"]
       ELSE IF MapContainsKey(r.W.heap[r.dir].entries, node_name)
       THEN [W |-> r.W, err |-> "FileAlreadyExists"]
       ELSE [W |-> SlotSet(r.W, EntrySlot(r.dir, node_name), node), err |-> ""]))

\* PrivateDirectory::cp_link
CpLink(W, h, path_segments_from, path_segments_to, search_latest) ==
    With(GetNode(W, h, path_segments_from, search_latest), LAMBDA result :
       IF ~result.found THEN [W |-> W, err |-> "NotFound"]
       ELSE With(NodeRc(W, h, path_segments_from, search_latest, result.node), LAMBDA rc :
            With(AttachLink(Hold(rc.W, rc.addr), rc.addr, h, path_segments_to, search_latest),
                 LAMBDA x : [W |-> Release(x.W), err |-> x.err])))

\* ------------------------------------------------------------------ store

\* PrivateForest::put_encrypted: the CIDs are united into the label's set.
PutEncrypted(forest, label, cids) ==
    (label :> ((IF label \in DOMAIN forest THEN forest[label] ELSE {}) \cup cids)) @@ forest

\* BlockStore::put_block
PutBlock(store, cid, block) == (cid :> block) @@ store

\* PrivateDirectoryContent::store / to_dag_cbor and PrivateDirectory::store on
\* the node at address a; the entries' links are resolved to refs first
\* (PrivateLink::resolve_ref stores a materialised child), and only when the
\* content has no persisted_as yet.
RECURSIVE StoreNode(_, _)
RECURSIVE StoreEntries(_, _, _, _)
StoreEntries(W, a, i, acc) ==
    IF i > Len(W.heap[a].entries) THEN [W |-> W, entries |-> acc]
    ELSE LET e == W.heap[a].entries[i]
             temporal_key == DeriveTemporalKey(W.heap[a].header)
         IN IF e.link.tag = "ref"
            THEN StoreEntries(W, a, i + 1,
                              Append(acc, [name |-> e.name,
                                           ref |-> RefToSerializable(e.link.ref, temporal_key)]))
            ELSE With(StoreNode(W, e.link.addr), LAMBDA c :
                 StoreEntries(c.W, a, i + 1,
                              Append(acc, [name |-> e.name,
                                           ref |-> RefToSerializable(c.ref, temporal_key)])))

StoreNode(W, a) ==
    LET header == W.heap[a].header
        header_cid == HeaderMapCid(header)
        temporal_key == DeriveTemporalKey(header)
        label == GetSaturatedNameHash(header)
    IN With([W EXCEPT !.store = HeaderStore(header, W.store)], LAMBDA W1 :
       With(IF W.heap[a].persisted_as # NoCid THEN W1
            ELSE With(StoreEntries(W1, a, 1, <<>>), LAMBDA se :
                 With(se.W.heap[a], LAMBDA cell :
                 With(ContentCid(se.W.fresh + 1), LAMBDA new_cid :
                 With([kind |-> "content",
                       key |-> DeriveSnapshotKey(temporal_key),
                       node |-> [kind |-> cell.kind,
                                 version |-> WNFS_VERSION,
                                 previous |-> cell.previous,
                                 header_cid |-> header_cid,
                                 metadata |-> cell.metadata,
                                 entries |-> se.entries,
                                 content |-> cell.content]], LAMBDA block :
                    SetCell([se.W EXCEPT !.fresh = @ + 1,
                                         !.store = PutBlock(@, new_cid, block)],
                            a, [cell EXCEPT !.persisted_as = new_cid]))))),
            LAMBDA W2 :
       With(W2.heap[a].persisted_as, LAMBDA content_cid :
          [W |-> [W2 EXCEPT !.forest = PutEncrypted(@, label, {header_cid, content_cid})],
           ref |-> AsPrivateRef(DeriveRevisionRef(header), content_cid)])))

\* The mutant of Store: the forest keeps only what this store puts.
StoreForgets(W, h) == StoreNode([W EXCEPT !.forest = <<>>], W.roots[h])

\* The mutant of Store: the forest is left as it was.
StoreSkipsForest(W, h) ==
    LET r == StoreNode(W, W.roots[h]) IN
    [W |-> [r.W EXCEPT !.forest = W.forest], ref |-> r.ref]

\* The mutant of Store: the content is encrypted and put whether or not
\* persisted_as holds a CID.
StoreAnew(W, h) ==
    StoreNode(SetCell(W, W.roots[h], [W.heap[W.roots[h]] EXCEPT !.persisted_as = NoCid]),
              W.roots[h])

\* PrivateDirectory::store through a handle.
Store(W, h) == StoreNode(W, W.roots[h])

\* ------------------------------------------------------------------ dropping

\* The addresses reachable from the handles; every other node has been dropped.
RECURSIVE Reachable(_, _)
Reachable(W, S) ==
    LET T == S \cup {W.heap[a].entries[i].link.addr :
                       <<a, i>> \in {<<a, i>> \in S \X (1..Len(Names)) :
                                       /\ i <= Len(W.heap[a].entries)
                                       /\ W.heap[a].entries[i].link.tag = "node"}}
    IN IF T = S THEN S ELSE Reachable(W, T)

Drop(W) ==
    LET live == Reachable(W, {W.roots[h] : h \in Handles} \ {NoAddr}) IN
    [W EXCEPT !.heap = [a \in live |-> W.heap[a]]]

\* ------------------------------------------------------------------ calls

\* A call of one operation of PrivateDirectory through a handle.
NoCall == [op |-> "none", h |-> "", path |-> <<>>, to |-> <<>>, search_latest |-> FALSE,
           content |-> ""]
CallWrite(h, p, sl, b) ==
    [NoCall EXCEPT !.op = "write", !.h = h, !.path = p, !.search_latest = sl, !.content = b]
CallMkdir(h, p, sl) == [NoCall EXCEPT !.op = "mkdir", !.h = h, !.path = p, !.search_latest = sl]
CallRm(h, p, sl) == [NoCall EXCEPT !.op = "rm", !.h = h, !.path = p, !.search_latest = sl]
CallCp(h, p, q, sl) ==
    [NoCall EXCEPT !.op = "cp", !.h = h, !.path = p, !.to = q, !.search_latest = sl]
CallBasicMv(h, p, q, sl) ==
    [NoCall EXCEPT !.op = "basic_mv", !.h = h, !.path = p, !.to = q, !.search_latest = sl]
CallCpLink(h, p, q, sl) ==
    [NoCall EXCEPT !.op = "cp_link", !.h = h, !.path = p, !.to = q, !.search_latest = sl]
CallStore(h) == [NoCall EXCEPT !.op = "store", !.h = h]
\* Rc::clone of the handle h into the other handle.
CallClone(h) == [NoCall EXCEPT !.op = "clone", !.h = h]

Other(h) == IF h = "root" THEN "clone" ELSE "root"

\* The call applied to W at the given time (Utc::now()); nodes no handle
\* reaches are dropped when it returns.  ref and node are the values store
\* and rm return.
Apply(W, call, time) ==
    With(CASE call.op = "write" ->
                With(Write(W, call.h, call.path, call.search_latest, time, call.content),
                     LAMBDA x : [W |-> x.W, err |-> x.err, ref |-> NoRef, node |-> NoNode])
           [] call.op = "mkdir" ->
                With(Mkdir(W, call.h, call.path, call.search_latest, time),
                     LAMBDA x : [W |-> x.W, err |-> x.err, ref |-> NoRef, node |-> NoNode])
           [] call.op = "rm" ->
                With(Rm(W, call.h, call.path, call.search_latest),
                     LAMBDA x : [W |-> x.W, err |-> x.err, ref |-> NoRef, node |-> x.node])
           [] call.op = "cp" ->
                With(Cp(W, call.h, call.path, call.to, call.search_latest, time),
                     LAMBDA x : [W |-> x.W, err |-> x.err, ref |-> NoRef, node |-> NoNode])
           [] call.op = "basic_mv" ->
                With(BasicMv(W, call.h, call.path, call.to, call.search_latest, time),
                     LAMBDA x : [W |-> x.W, err |-> x.err, ref |-> NoRef, node |-> NoNode])
           [] call.op = "cp_link" ->
                With(CpLink(W, call.h, call.path, call.to, call.search_latest),
                     LAMBDA x : [W |-> x.W, err |-> x.err, ref |-> NoRef, node |-> NoNode])
           [] call.op = "store" ->
                With(Store(W, call.h),
                     LAMBDA x : [W |-> x.W, err |-> "", ref |-> x.ref, node |-> NoNode])
           [] OTHER ->
                [W |-> [W EXCEPT !.roots[Other(call.h)] = W.roots[call.h]],
                 err |-> "", ref |-> NoRef, node |-> NoNode],
         LAMBDA r : [W |-> Drop(r.W), err |-> r.err, ref |-> r.ref, node |-> r.node])

\* A new root directory (PrivateDirectory::new with an empty parent bare name)
\* held by the handle root, an empty forest and an empty block store.
NewWorld(o) ==
    [heap |-> (1 :> DirWithSeed({}, 0, 2, 1)),
     roots |-> ("root" :> 1) @@ ("clone" :> NoAddr),
     forest |-> <<>>,
     store |-> <<>>,
     fresh |-> 2,
     ord |-> o]

\* The state after the calls of a script, made one after the other on a new
\* world: W, the calls with their errors, and what the last call returned.
RECURSIVE Run(_, _)
Run(script, o) ==
    IF script = <<>>
    THEN [W |-> NewWorld(o), hist |-> <<>>, ref |-> NoRef, node |-> NoNode]
    ELSE With(Run(Front(script), o), LAMBDA before :
         With(Apply(before.W, Last(script), Len(script)), LAMBDA r :
            [W |-> r.W,
             hist |-> Append(before.hist, [call |-> Last(script), err |-> r.err]),
             ref |-> r.ref, node |-> r.node]))

\* ------------------------------------------------------------------ state

\* hist: the calls made so far with their errors; ret: what the last call
\* returned; clock: the calls made since the initial state.  sent: the
\* requests a network client has put on its connection; files: the files of
\* the directory of a network server; threads: its handler threads.
VARIABLES heap, roots, forest, store, fresh, ord, hist, ret, clock, sent, files, threads
vars == <<heap, roots, forest, store, fresh, ord, hist, ret, clock, sent, files, threads>>

\* No network store is in use.
NoNetwork == sent = <<>> /\ files = <<>> /\ threads = <<>>

World == [heap |-> heap, roots |-> roots, forest |-> forest, store |-> store,
          fresh |-> fresh, ord |-> ord]

StartsAt(r) ==
    /\ heap = r.W.heap
    /\ roots = r.W.roots
    /\ forest = r.W.forest
    /\ store = r.W.store
    /\ fresh = r.W.fresh
    /\ ord = r.W.ord
    /\ hist = r.hist
    /\ ret = [ref |-> r.ref, node |-> r.node]
    /\ clock = 0
    /\ NoNetwork

\* One call is made through a handle that holds a directory.
Step(call) ==
    /\ roots[call.h] # NoAddr
    /\ \E r \in {Apply(World, call, Len(hist) + 1)} :
       /\ heap' = r.W.heap
       /\ roots' = r.W.roots
       /\ forest' = r.W.forest
       /\ store' = r.W.store
       /\ fresh' = r.W.fresh
       /\ ord' = ord
       /\ hist' = Append(hist, [call |-> call, err |-> r.err])
       /\ ret' = [ref |-> r.ref, node |-> r.node]
       /\ clock' = clock + 1
       /\ UNCHANGED <<sent, files, threads>>

Do(call) == clock < MaxOps /\ Step(call)

\* A tree with two directories and a file, never stored.
ScriptTree ==
    <<CallMkdir("root", <<"b">>, FALSE),
      CallWrite("root", <<"a", "a">>, FALSE, "One")>>

\* The same tree stored, and a clone of the stored root.
ScriptCloned == ScriptTree \o <<CallStore("root"), CallClone("root")>>

\* The clone has written and stored a second revision; root holds the first.
ScriptAhead ==
    ScriptCloned \o <<CallWrite("clone", <<"a", "a">>, FALSE, "Two"), CallStore("clone")>>

\* The initial states: the state after each script, with the order in which
\* the forest yields the CIDs of a label.
Starts == {<<(<<>>), "min">>, <<ScriptTree, "min">>, <<ScriptCloned, "min">>,
           <<ScriptAhead, "min">>, <<ScriptAhead, "max">>}

Init == \E s \in Starts : StartsAt(Run(s[1], s[2]))

DoWrite ==
    \E h \in Handles, p \in Paths, sl \in BOOLEAN, b \in Bytes : Do(CallWrite(h, p, sl, b))

DoMkdir == \E p \in Paths, sl \in BOOLEAN : Do(CallMkdir("root", p, sl))

DoRm == \E p \in Paths, sl \in BOOLEAN : Do(CallRm("root", p, sl))

DoCp == \E p \in Paths, q \in Paths, sl \in BOOLEAN : Do(CallCp("root", p, q, sl))

DoBasicMv == \E p \in Paths, q \in MvTargets, sl \in BOOLEAN : Do(CallBasicMv("root", p, q, sl))

DoCpLink == \E p \in LinkSources, q \in LinkTargets, sl \in BOOLEAN : Do(CallCpLink("root", p, q, sl))

DoStore == \E h \in Handles : Do(CallStore(h))

DoClone == \E h \in Handles : Do(CallClone(h))

Next == DoWrite \/ DoMkdir \/ DoRm \/ DoCp \/ DoBasicMv \/ DoCpLink \/ DoStore \/ DoClone

Spec == Init /\ [][Next]_vars

\* ------------------------------------------------------------------ block store

\* serde's to_ipld of a Vec<u8>: a list of integers; from_ipld back.
ToIpld(value) ==
    [tag |-> "list", items |-> AsSeq([i \in 1..Len(value) |-> [tag |-> "int", n |-> value[i]]])]

FromIpld(ipld) ==
    IF ipld.tag = "list" /\ \A i \in 1..Len(ipld.items) : ipld.items[i].n \in 0..255
    THEN [ok |-> TRUE, value |-> AsSeq([i \in 1..Len(ipld.items) |-> ipld.items[i].n])]
    ELSE [ok |-> FALSE, value |-> <<>>]

\* The head of a CBOR data item of a major type with an argument below 256:
\* the argument in the initial byte when it is below 24, in one byte after
\* it otherwise.
CborHead(major, n) == IF n < 24 THEN <<major * 32 + n>> ELSE <<major * 32 + 24, n>>

\* dagcbor::encode of a list of unsigned integers (major type 4, items of
\* major type 0).
RECURSIVE EncodeItems(_, _)
EncodeItems(items, i) ==
    IF i > Len(items) THEN <<>> ELSE CborHead(0, items[i].n) \o EncodeItems(items, i + 1)

DagCborEncode(ipld) == CborHead(4, Len(ipld.items)) \o EncodeItems(ipld.items, 1)

\* The argument of the data item that starts at position i, and the position
\* after its head; ok tells whether the head is well formed and of minimal
\* length.
CborArg(bytes, i) ==
    IF i > Len(bytes) THEN [ok |-> FALSE, major |-> 0, n |-> 0, next |-> i]
    ELSE LET low == bytes[i] % 32 IN
         IF low < 24 THEN [ok |-> TRUE, major |-> bytes[i] \div 32, n |-> low, next |-> i + 1]
         ELSE IF low = 24 /\ i + 1 <= Len(bytes) /\ bytes[i + 1] >= 24
         THEN [ok |-> TRUE, major |-> bytes[i] \div 32, n |-> bytes[i + 1], next |-> i + 2]
         ELSE [ok |-> FALSE, major |-> 0, n |-> 0, next |-> i]

RECURSIVE DecodeItems(_, _, _, _)
DecodeItems(bytes, i, left, acc) ==
    IF left = 0 THEN [ok |-> i = Len(bytes) + 1, items |-> acc]
    ELSE LET a == CborArg(bytes, i) IN
         IF a.ok /\ a.major = 0
         THEN DecodeItems(bytes, a.next, left - 1, Append(acc, [tag |-> "int", n |-> a.n]))
         ELSE [ok |-> FALSE, items |-> acc]

\* dagcbor::decode
DagCborDecode(bytes) ==
    LET a == CborArg(bytes, 1) IN
    IF a.ok /\ a.major = 4
    THEN LET d == DecodeItems(bytes, a.next, a.n, <<>>) IN
         [ok |-> d.ok, ipld |-> [tag |-> "list", items |-> d.items]]
    ELSE [ok |-> FALSE, ipld |-> [tag |-> "list", items |-> <<>>]]

\* The codec tag of DAG-CBOR blocks.
DagCbor == "dag-cbor"

BadCid == [version |-> 0, codec |-> "", hash |-> [sha2_256 |-> <<>>]]

\* The mutant of CreateCid: the hash is taken of the length of the block.
CreateCidOfLength(bytes, codec) ==
    [err |-> "", cid |-> [version |-> 1, codec |-> codec, hash |-> [sha2_256 |-> <<Len(bytes)>>]]]

\* The mutant of CreateCid: a block of any length gets its CID.
CreateCidAnySize(bytes, codec) ==
    [err |-> "", cid |-> [version |-> 1, codec |-> codec, hash |-> [sha2_256 |-> bytes]]]

\* BlockStore::create_cid
CreateCid(bytes, codec) ==
    IF Len(bytes) > MAX_BLOCK_SIZE
    THEN [err |-> "MaximumBlockSizeExceeded", cid |-> BadCid]
    ELSE [err |-> "", cid |-> [version |-> 1, codec |-> codec, hash |-> [sha2_256 |-> bytes]]]

\* put_block and get_block of a store that keeps its blocks in a map.
BsPutBlock(blocks, bytes, codec) ==
    LET c == CreateCid(bytes, codec) IN
    IF c.err # "" THEN [blocks |-> blocks, err |-> c.err, cid |-> BadCid]
    ELSE [blocks |-> PutBlock(blocks, c.cid, bytes), err |-> "", cid |-> c.cid]

BsGetBlock(blocks, cid) ==
    IF cid \in DOMAIN blocks THEN [err |-> "", bytes |-> blocks[cid]]
    ELSE [err |-> "CIDNotFound", bytes |-> <<>>]

\* BlockStore::put_serializable
PutSerializable(blocks, value) == BsPutBlock(blocks, DagCborEncode(ToIpld(value)), DagCbor)

\* BlockStore::get_deserializable
GetDeserializable(blocks, cid) ==
    LET b == BsGetBlock(blocks, cid)
        d == DagCborDecode(b.bytes)
        v == FromIpld(d.ipld)
    IN IF b.err # "" THEN [err |-> b.err, value |-> <<>>]
       ELSE IF ~d.ok THEN [err |-> "DecodeError", value |-> <<>>]
       ELSE IF ~v.ok THEN [err |-> "SerdeError", value |-> <<>>]
       ELSE [err |-> "", value |-> v.value]

\* A block store that starts empty; store holds its blocks, hist the calls
\* with what they returned.
InitBlockStore ==
    /\ heap = <<>> /\ roots = [h \in Handles |-> NoAddr] /\ forest = <<>>
    /\ store = <<>> /\ fresh = 0 /\ ord = "min"
    /\ hist = <<>> /\ ret = [err |-> "", cid |-> BadCid, value |-> <<>>]
    /\ clock = 0
    /\ NoNetwork

\* The CIDs handed to get_deserializable: the CID of every value.
Cids == {CreateCid(DagCborEncode(ToIpld(v)), DagCbor).cid : v \in Values}

DoPutSerializable ==
    \E v \in Values :
       /\ clock < MaxBlockOps
       /\ \E r \in {PutSerializable(store, v)} :
          /\ store' = r.blocks
          /\ ret' = [err |-> r.err, cid |-> r.cid, value |-> <<>>]
          /\ hist' = Append(hist, [op |-> "put_serializable", value |-> v, cid |-> r.cid,
                                    err |-> r.err])
       /\ clock' = clock + 1
       /\ UNCHANGED <<heap, roots, forest, fresh, ord, sent, files, threads>>

DoGetDeserializable ==
    \E cid \in Cids :
       /\ clock < MaxBlockOps
       /\ \E r \in {GetDeserializable(store, cid)} :
          /\ ret' = [err |-> r.err, cid |-> cid, value |-> r.value]
          /\ hist' = Append(hist, [op |-> "get_deserializable", value |-> r.value, cid |-> cid,
                                    err |-> r.err])
       /\ clock' = clock + 1
       /\ UNCHANGED <<heap, roots, forest, store, fresh, ord, sent, files, threads>>

NextBlockStore == DoPutSerializable \/ DoGetDeserializable

SpecBlockStore == InitBlockStore /\ [][NextBlockStore]_vars

\* ------------------------------------------------------------------ network client

\* The address a ClientNetworkBlockStore is made with.
Addr == "127.0.0.1:5001"

\* What the connection does with a request: it fails to send it, or the
\* response has no body chunk, a chunk that fails, or a chunk of bytes.
Wire == {[tag |-> "Refused", bytes |-> <<>>], [tag |-> "NoBody", bytes |-> <<>>],
         [tag |-> "BodyError", bytes |-> <<>>], [tag |-> "Body", bytes |-> <<>>],
         [tag |-> "Body", bytes |-> <<1>>]}

\* str::parse::<Uri> of a text with or without a scheme: with a scheme it
\* parses; an authority followed by a path and no scheme may be refused.
UriParses(scheme) == IF scheme # "" THEN {TRUE} ELSE BOOLEAN

\* RefCell::borrow_mut of a cell that has the given number of borrows out.
BorrowMut(borrows) ==
    IF borrows > 0 THEN [panic |-> TRUE, borrows |-> borrows]
    ELSE [panic |-> FALSE, borrows |-> borrows + 1]

\* The mutant of BorrowMut: a borrow is given whatever is out.
BorrowMutShared(borrows) == [panic |-> FALSE, borrows |-> borrows + 1]

\* ClientNetworkBlockStore::send_request: request_sender is borrowed into
\* sender, which lives to the end of the function, and borrowed again to send.
SendRequest(wire_sent, request, wire) ==
    LET sender == BorrowMut(0)
        again == BorrowMut(sender.borrows)
    IN IF sender.panic \/ again.panic
       THEN [end |-> "panic", err |-> "BorrowMutError", sent |-> wire_sent, bytes |-> <<>>]
       ELSE IF wire.tag = "Refused"
       THEN [end |-> "Err", err |-> "hyper::Error", sent |-> wire_sent, bytes |-> <<>>]
       ELSE IF wire.tag = "NoBody"
       THEN [end |-> "panic", err |-> "unwrap on None", sent |-> Append(wire_sent, request),
             bytes |-> <<>>]
       ELSE IF wire.tag = "BodyError"
       THEN [end |-> "Err", err |-> "hyper::Error", sent |-> Append(wire_sent, request),
             bytes |-> <<>>]
       ELSE [end |-> "Ok", err |-> "", sent |-> Append(wire_sent, request), bytes |-> wire.bytes]

\* ClientNetworkBlockStore::put_block: the CID is made first; the request
\* carries the body "data"; the result of send_request is unwrapped.
ClientPutBlock(wire_sent, bytes, codec, wire) ==
    LET c == CreateCid(bytes, codec)
        request == [method |-> "POST",
                    uri |-> [scheme |-> "http", authority |-> Addr,
                             path |-> <<"api", "v0", "block", "put", c.cid>>],
                    host |-> Addr, arg |-> BadCid, body |-> "data"]
        response == SendRequest(wire_sent, request, wire)
    IN IF c.err # "" THEN [end |-> "Err", err |-> c.err, sent |-> wire_sent, cid |-> BadCid]
       ELSE IF response.end # "Ok"
       THEN [end |-> "panic", err |-> response.err, sent |-> response.sent, cid |-> BadCid]
       ELSE [end |-> "Ok", err |-> "", sent |-> response.sent, cid |-> c.cid]

\* ClientNetworkBlockStore::get_block: the URI is parsed and printed, and the
\* request is built without it; the result of send_request is unwrapped.
ClientGetBlock(wire_sent, cid, wire, parses) ==
    LET request == [method |-> "POST",
                    uri |-> [scheme |-> "", authority |-> "", path |-> <<>>],
                    host |-> "example.com", arg |-> cid, body |-> ""]
        response == SendRequest(wire_sent, request, wire)
    IN IF ~parses THEN [end |-> "Err", err |-> "InvalidUri", sent |-> wire_sent, bytes |-> <<>>]
       ELSE IF response.end # "Ok"
       THEN [end |-> "panic", err |-> response.err, sent |-> response.sent, bytes |-> <<>>]
       ELSE [end |-> "Ok", err |-> "", sent |-> response.sent, bytes |-> response.bytes]

\* A client that has connected; hist holds its calls with how they ended.
InitClient ==
    /\ heap = <<>> /\ roots = [h \in Handles |-> NoAddr] /\ forest = <<>>
    /\ store = <<>> /\ fresh = 0 /\ ord = "min"
    /\ hist = <<>> /\ ret = [end |-> "", err |-> "", cid |-> BadCid, bytes |-> <<>>]
    /\ clock = 0
    /\ NoNetwork

\* The CIDs handed to get_block: the CID of every block that has one.
BlockCids == {CreateCid(b, c).cid : b \in {x \in Blocks : Len(x) <= MAX_BLOCK_SIZE}, c \in Codecs}

DoClientPutBlock ==
    \E bytes \in Blocks, codec \in Codecs, wire \in Wire :
       /\ clock < MaxBlockOps
       /\ \E r \in {ClientPutBlock(sent, bytes, codec, wire)} :
          /\ sent' = r.sent
          /\ ret' = [end |-> r.end, err |-> r.err, cid |-> r.cid, bytes |-> <<>>]
          /\ hist' = Append(hist, [op |-> "put_block", bytes |-> bytes, codec |-> codec,
                                    cid |-> r.cid, end |-> r.end, err |-> r.err])
       /\ clock' = clock + 1
       /\ UNCHANGED <<heap, roots, forest, store, fresh, ord, files, threads>>

DoClientGetBlock ==
    \E cid \in BlockCids, wire \in Wire, parses \in UriParses("") :
       /\ clock < MaxBlockOps
       /\ \E r \in {ClientGetBlock(sent, cid, wire, parses)} :
          /\ sent' = r.sent
          /\ ret' = [end |-> r.end, err |-> r.err, cid |-> cid, bytes |-> r.bytes]
          /\ hist' = Append(hist, [op |-> "get_block", bytes |-> r.bytes, codec |-> cid.codec,
                                    cid |-> cid, end |-> r.end, err |-> r.err])
       /\ clock' = clock + 1
       /\ UNCHANGED <<heap, roots, forest, store, fresh, ord, files, threads>>

NextClient == DoClientPutBlock \/ DoClientGetBlock

SpecClient == InitClient /\ [][NextClient]_vars

\* ------------------------------------------------------------------ network server

\* Cid::try_from of the bytes of a CID of version 1 (version, codec, hash
\* code, digest length, digest).
CidTryFrom(bytes) ==
    IF Len(bytes) >= 4 /\ bytes[1] = 1 /\ Len(bytes) >= 4 + bytes[4]
    THEN [ok |-> TRUE,
          cid |-> [version |-> 1, codec |-> bytes[2],
                   hash |-> [code |-> bytes[3], digest |-> SubSeq(bytes, 5, 4 + bytes[4])]]]
    ELSE [ok |-> FALSE, cid |-> [version |-> 0, codec |-> 0, hash |-> [code |-> 0, digest |-> <<>>]]]

\* format!("{}/{}", dir_path, cid.to_string())
FilePath(cid) == <<"blockstore_example", [multibase |-> "base32", cid |-> cid]>>

\* The number of bytes of the request that the server prints after a write.
PrintedBytes == 20

\* handle_client up to the first use of the file system: buf.get(0) and
\* buf.get(1) are unwrapped, the CID is sliced out of buf and parsed.
Parse(buf) ==
    IF Len(buf) < 2 THEN [end |-> "panic", err |-> "unwrap on None"]
    ELSE IF Len(buf) < 2 + buf[2] THEN [end |-> "panic", err |-> "slice out of range"]
    ELSE IF ~CidTryFrom(SubSeq(buf, 3, 2 + buf[2])).ok THEN [end |-> "Err", err |-> "cid::Error"]
    ELSE [end |-> "", err |-> ""]

write_mode(buf) == buf[1] = 0
CidOf(buf) == CidTryFrom(SubSeq(buf, 3, 2 + buf[2])).cid
DataOf(buf) == SubSeq(buf, 3 + buf[2], Len(buf))

\* Write::write at a position of a file: the bytes replace what is there and
\* extend the file, with zeros between its end and the position.
WriteAt(content, pos, chunk) ==
    LET before == [i \in 1..pos |-> IF i <= Len(content) THEN content[i] ELSE 0]
        after == IF Len(content) > pos + Len(chunk)
                 THEN SubSeq(content, pos + Len(chunk) + 1, Len(content)) ELSE <<>>
    IN before \o chunk \o after

\* After file.write_all the server prints the first bytes of the request and
\* answers with the byte 1.
Acknowledge(t) ==
    IF Len(t.buf) < PrintedBytes
    THEN [t EXCEPT !.pc = "done", !.end = "panic", !.err = "slice out of range"]
    ELSE [t EXCEPT !.pc = "done", !.end = "Ok", !.out = <<1>>]

\* A handler thread has ended: listen unwraps what handle_client returned.
Ended(t) == t.pc = "done"
ThreadPanicked(t) == Ended(t) /\ t.end \in {"panic", "Err"}

\* A server that listens, with an empty directory.
InitServer ==
    /\ heap = <<>> /\ roots = [h \in Handles |-> NoAddr] /\ forest = <<>>
    /\ store = <<>> /\ fresh = 0 /\ ord = "min"
    /\ hist = <<>> /\ ret = [end |-> "", err |-> "", cid |-> BadCid, bytes |-> <<>>]
    /\ clock = 0
    /\ sent = <<>> /\ files = <<>> /\ threads = <<>>

ServerUnchanged == UNCHANGED <<heap, roots, forest, store, fresh, ord, hist, ret, sent>>

\* listen accepts a connection and spawns a thread that runs handle_client:
\* the request is read to its end and parsed.
Accept ==
    \E buf \in Requests :
       /\ Len(threads) < MaxConns
       /\ \E r \in {Parse(buf)} :
            threads' = Append(threads,
               [buf |-> buf, pc |-> IF r.end # "" THEN "done"
                                    ELSE IF write_mode(buf) THEN "create" ELSE "open",
                end |-> r.end, err |-> r.err, pos |-> 0, data |-> <<>>, out |-> <<>>,
                began |-> clock + 1, ended |-> IF r.end # "" THEN clock + 1 ELSE 0])
       /\ clock' = clock + 1
       /\ files' = files
       /\ ServerUnchanged

\* create_dir_all and File::create: the file is there and empty.  write_all
\* of no byte writes nothing.
Create ==
    \E i \in 1..Len(threads) :
       /\ threads[i].pc = "create"
       /\ files' = (FilePath(CidOf(threads[i].buf)) :> <<>>) @@ files
       /\ IF DataOf(threads[i].buf) = <<>>
          THEN /\ threads' = [threads EXCEPT ![i] = [Acknowledge(@) EXCEPT !.ended = clock + 1]]
               /\ clock' = clock + 1
          ELSE /\ threads' = [threads EXCEPT ![i].pc = "write"]
               /\ clock' = clock
       /\ ServerUnchanged

\* file.write_all: one write of some of the bytes that are left, at the
\* position of the thread's file handle.
WriteSome ==
    \E i \in 1..Len(threads) :
       /\ threads[i].pc = "write"
       /\ \E k \in 1..(Len(DataOf(threads[i].buf)) - threads[i].pos) :
          LET t == threads[i]
              path == FilePath(CidOf(t.buf))
              chunk == SubSeq(DataOf(t.buf), t.pos + 1, t.pos + k)
              last == t.pos + k = Len(DataOf(t.buf))
          IN /\ files' = [files EXCEPT ![path] = WriteAt(@, t.pos, chunk)]
             /\ threads' = [threads EXCEPT ![i] =
                              IF last THEN [Acknowledge([t EXCEPT !.pos = t.pos + k])
                                              EXCEPT !.ended = clock + 1]
                              ELSE [t EXCEPT !.pos = t.pos + k]]
             /\ clock' = IF last THEN clock + 1 ELSE clock
       /\ ServerUnchanged

\* File::open: an error when the file is not there.
Open ==
    \E i \in 1..Len(threads) :
       /\ threads[i].pc = "open"
       /\ IF FilePath(CidOf(threads[i].buf)) \in DOMAIN files
          THEN /\ threads' = [threads EXCEPT ![i].pc = "read"]
               /\ clock' = clock
          ELSE /\ threads' = [threads EXCEPT ![i].pc = "done", ![i].end = "Err",
                                              ![i].err = "io::Error", ![i].ended = clock + 1]
               /\ clock' = clock + 1
       /\ files' = files
       /\ ServerUnchanged

\* file.read_to_end: one read of what the file holds from the position of the
\* handle on; a read of no byte ends it, and the bytes read are the response.
ReadSome ==
    \E i \in 1..Len(threads) :
       /\ threads[i].pc = "read"
       /\ LET t == threads[i]
              content == files[FilePath(CidOf(t.buf))]
          IN IF t.pos < Len(content)
             THEN /\ threads' = [threads EXCEPT ![i].data = @ \o SubSeq(content, t.pos + 1, Len(content)),
                                                 ![i].pos = Len(content)]
                  /\ clock' = clock
             ELSE /\ threads' = [threads EXCEPT ![i].pc = "done", ![i].end = "Ok",
                                                 ![i].out = t.data, ![i].ended = clock + 1]
                  /\ clock' = clock + 1
       /\ files' = files
       /\ ServerUnchanged

NextServer == Accept \/ Create \/ WriteSome \/ Open \/ ReadSome

SpecServer == InitServer /\ [][NextServer]_vars

\* ------------------------------------------------------------------ two writers

\* Two writers, root and clone, each hold a clone of the revision that
\* ScriptCloned stores; each makes one mutating call and then stores, the
\* four calls coming in any order.

\* The calls the writer h has made.
CallsOf(h) ==
    Cardinality({i \in (Len(ScriptCloned) + 1)..Len(hist) : hist[i].call.h = h})

InitWriters == \E o \in {"min", "max"} : StartsAt(Run(ScriptCloned, o))

WriterMutate ==
    \E h \in Handles, p \in Paths, sl \in BOOLEAN, b \in Bytes :
       /\ CallsOf(h) = 0
       /\ \/ Step(CallWrite(h, p, sl, b))
          \/ b = "One" /\ Step(CallMkdir(h, p, sl))
          \/ b = "One" /\ Step(CallRm(h, p, sl))

WriterStore == \E h \in Handles : CallsOf(h) = 1 /\ Step(CallStore(h))

NextWriters == WriterMutate \/ WriterStore

SpecWriters == InitWriters /\ [][NextWriters]_vars

\* ------------------------------------------------------------------ properties

\* The last call made, and whether it was the given operation and succeeded.
Called(i, op) == i >= 1 /\ i <= Len(hist) /\ hist[i].call.op = op /\ hist[i].err = ""
LastCall == hist[Len(hist)].call
Returned(b) == [err |-> "", bytes |-> b]

\* C1 as stated: after write(p, b) succeeds, read(p) through the same root
\* returns exactly b (the last write when there were several), whichever way
\* the read resolves the path.
C1_ReadReturnsWritten ==
    Called(Len(hist), "write") =>
        \A sl \in BOOLEAN :
            Read(World, LastCall.h, LastCall.path, sl) = Returned(LastCall.content)

\* C1 amended: after write(p, b) succeeds, read(p) through the same root
\* returns exactly b when the read runs with search_latest = false, or when
\* the write ran with search_latest = true.
C1_ReadReturnsWrittenSameView ==
    Called(Len(hist), "write") =>
        \A sl \in BOOLEAN :
            (~sl \/ LastCall.search_latest) =>
                Read(World, LastCall.h, LastCall.path, sl) = Returned(LastCall.content)

\* Two writes of different contents to one path, and the read returns the last.
C1_Witness ==
    /\ Called(Len(hist), "write") /\ Called(Len(hist) - 1, "write")
    /\ hist[Len(hist) - 1].call.h = LastCall.h
    /\ hist[Len(hist) - 1].call.path = LastCall.path
    /\ hist[Len(hist) - 1].call.content # LastCall.content
    /\ Read(World, LastCall.h, LastCall.path, FALSE) = Returned(LastCall.content)
    /\ LastCall.search_latest
    /\ Read(World, LastCall.h, LastCall.path, TRUE) = Returned(LastCall.content)

\* Two successful writes through one root, one after the other, to distinct
\* paths with the same parent.
SiblingWrites ==
    /\ Called(Len(hist), "write") /\ Called(Len(hist) - 1, "write")
    /\ hist[Len(hist) - 1].call.h = LastCall.h
    /\ hist[Len(hist) - 1].call.path # LastCall.path
    /\ Front(hist[Len(hist) - 1].call.path) = Front(LastCall.path)

\* C2 as stated: after write(p, b1) then write(q, b2), p # q with the same
\* parent, read(p) returns b1 and read(q) returns b2.
C2_SiblingWritesIndependent ==
    SiblingWrites =>
        \A sl \in BOOLEAN :
            /\ Read(World, LastCall.h, hist[Len(hist) - 1].call.path, sl)
                 = Returned(hist[Len(hist) - 1].call.content)
            /\ Read(World, LastCall.h, LastCall.path, sl) = Returned(LastCall.content)

\* C2 amended: the same, when the two writes and the two reads run with the
\* same search_latest setting.
C2_SiblingWritesIndependentSameView ==
    (SiblingWrites /\ hist[Len(hist) - 1].call.search_latest = LastCall.search_latest) =>
        /\ Read(World, LastCall.h, hist[Len(hist) - 1].call.path, LastCall.search_latest)
             = Returned(hist[Len(hist) - 1].call.content)
        /\ Read(World, LastCall.h, LastCall.path, LastCall.search_latest)
             = Returned(LastCall.content)

\* Two sibling files written with different contents in one existing parent.
C2_Witness ==
    /\ SiblingWrites
    /\ Len(LastCall.path) = 2
    /\ hist[Len(hist) - 1].call.content # LastCall.content
    /\ hist[Len(hist) - 1].call.search_latest /\ LastCall.search_latest
    /\ Read(World, LastCall.h, hist[Len(hist) - 1].call.path, TRUE)
         = Returned(hist[Len(hist) - 1].call.content)
    /\ Read(World, LastCall.h, LastCall.path, TRUE) = Returned(LastCall.content)

\* The state after the step.
WorldNext == [heap |-> heap', roots |-> roots', forest |-> forest', store |-> store',
              fresh |-> fresh', ord |-> ord']

\* The call the step makes.
Calling == hist'[Len(hist')].call

\* Everything that can be observed of the tree under address a without going
\* to the forest: each node's header, persisted_as, previous links, metadata,
\* content and entries, a link that is still encrypted being seen as its ref.
RECURSIVE Snapshot(_, _)
Snapshot(W, a) ==
    LET n == W.heap[a] IN
    [kind |-> n.kind, header |-> n.header, persisted_as |-> n.persisted_as,
     previous |-> n.previous, metadata |-> n.metadata, content |-> n.content,
     entries |-> [i \in 1..Len(n.entries) |->
                    IF n.entries[i].link.tag = "node"
                    THEN [name |-> n.entries[i].name, ref |-> NoRef,
                          node |-> <<Snapshot(W, n.entries[i].link.addr)>>]
                    ELSE [name |-> n.entries[i].name, ref |-> n.entries[i].link.ref,
                          node |-> <<>>]]]

Mutators == {"write", "mkdir", "rm", "cp", "basic_mv", "cp_link"}

\* C3: a mutating operation (write, mkdir, rm, cp, basic_mv, cp_link) through one
\* handle, failed or not, leaves what the other handle of the same tree sees
\* unchanged, stored or not: entries, previous, ratchet, persisted_as of every
\* node under it, and what read without search_latest returns.
C3_CloneUnchanged ==
    [][(hist' # hist /\ Calling.op \in Mutators /\ roots[Other(Calling.h)] # NoAddr) =>
          /\ roots'[Other(Calling.h)] = roots[Other(Calling.h)]
          /\ Snapshot(WorldNext, roots'[Other(Calling.h)])
               = Snapshot(World, roots[Other(Calling.h)])
          /\ \A p \in Paths :
                Read(WorldNext, Other(Calling.h), p, FALSE)
                  = Read(World, Other(Calling.h), p, FALSE)]_vars

\* A write through root has changed a file that the stored clone still reads
\* as it was.
C3_Witness ==
    /\ Called(Len(hist), "write") /\ LastCall.h = "root" /\ LastCall.path = <<"a", "a">>
    /\ roots["clone"] # NoAddr
    /\ heap[roots["clone"]].persisted_as # NoCid
    /\ heap[roots["root"]].persisted_as = NoCid
    /\ Read(World, "root", <<"a", "a">>, FALSE) = Returned("Two")
    /\ Read(World, "clone", <<"a", "a">>, FALSE) = Returned("One")

\* The call reaches prepare_next_revision of the root: every mutating
\* operation does, except a cp whose source is not found.
Mutates(W, call) ==
    \/ call.op \in {"write", "mkdir", "rm", "basic_mv"}
    \/ call.op = "cp" /\ GetNode(W, call.h, call.path, call.search_latest).found

AtMostOnePrevious(W) == \A a \in DOMAIN W.heap : Cardinality(W.heap[a].previous) <= 1

\* C4: mutating a directory that is not stored leaves its previous links as
\* they are, empty when nothing was ever stored; mutating a stored directory
\* leaves exactly one previous link, (1, the stored content CID encrypted
\* under the temporal key of the stored revision); no node ever has more than
\* one previous link.
C4_PreviousLink ==
    [][/\ AtMostOnePrevious(World) /\ AtMostOnePrevious(WorldNext)
       /\ (hist' # hist /\ Mutates(World, Calling)) =>
             LET before == heap[roots[Calling.h]]
                 after == heap'[roots'[Calling.h]]
             IN /\ before.persisted_as = NoCid => after.previous = before.previous
                /\ (\A i \in 1..Len(hist) : hist[i].call.op # "store") => after.previous = {}
                /\ before.persisted_as # NoCid =>
                      after.previous =
                         {<<1, EncryptedFromValue(before.persisted_as,
                                                  DeriveTemporalKey(before.header))>>}]_vars

\* A stored root has been mutated: it is one revision ahead, not stored, and
\* its one previous link holds the CID of a content block in the store.
C4_Witness ==
    /\ Called(Len(hist), "mkdir") /\ Called(Len(hist) - 1, "store")
    /\ LastCall.h = "root" /\ hist[Len(hist) - 1].call.h = "root"
    /\ heap[roots["root"]].persisted_as = NoCid
    /\ \E l \in heap[roots["root"]].previous :
          /\ l[1] = 1
          /\ l[2].cid \in DOMAIN store /\ store[l[2].cid].kind = "content"
          /\ l[2].key = TemporalKeyFrom([heap[roots["root"]].header.ratchet EXCEPT
                                           !.step = @ - 1])

\* The history ends with write(p, b1); store; clone; write(p, b2); store, the
\* first three through one handle and the last two through the handle w.
TwoRevisions(w) ==
    /\ Called(Len(hist) - 4, "write") /\ Called(Len(hist) - 3, "store")
    /\ Called(Len(hist) - 2, "clone")
    /\ Called(Len(hist) - 1, "write") /\ Called(Len(hist), "store")
    /\ hist[Len(hist) - 3].call.h = hist[Len(hist) - 4].call.h
    /\ hist[Len(hist) - 2].call.h = hist[Len(hist) - 4].call.h
    /\ hist[Len(hist) - 1].call.h = w /\ hist[Len(hist)].call.h = w
    /\ hist[Len(hist) - 1].call.path = hist[Len(hist) - 4].call.path

\* C5: after write(p, b1); store; a clone is taken; write(p, b2); store, the
\* handle left behind reads b2 at p with search_latest = true and b1 with
\* search_latest = false, and the handle that wrote reads b2 in both modes.
C5_SearchLatestFindsNewRevision ==
    \A w \in Handles :
        TwoRevisions(w) =>
            LET p == hist[Len(hist)  - 1].call.path
                b1 == hist[Len(hist) - 4].call.content
                b2 == hist[Len(hist) - 1].call.content
            IN /\ Read(World, Other(w), p, TRUE) = Returned(b2)
               /\ Read(World, Other(w), p, FALSE) = Returned(b1)
               /\ Read(World, w, p, TRUE) = Returned(b2)
               /\ Read(World, w, p, FALSE) = Returned(b2)

\* The scenario with One then Two, the second write made with search_latest.
C5_Witness ==
    /\ TwoRevisions("root")
    /\ hist[Len(hist) - 4].call.content = "One"
    /\ hist[Len(hist) - 1].call.content = "Two"
    /\ hist[Len(hist) - 1].call.search_latest
    /\ Read(World, "clone", hist[Len(hist) - 1].call.path, TRUE) = Returned("Two")
    /\ Read(World, "clone", hist[Len(hist) - 1].call.path, FALSE) = Returned("One")

\* The ref a link stands for: the ref it holds, or the ref of the node it holds.
LinkRef(W, link) ==
    IF link.tag = "ref" THEN link.ref
    ELSE AsPrivateRef(DeriveRevisionRef(W.heap[link.addr].header),
                      W.heap[link.addr].persisted_as)

\* PartialEq of a loaded directory and a directory in memory: header,
\* previous, metadata and entries, an entry being the ref it stands for.
SameDirectory(W, loaded, dir) ==
    /\ loaded.kind = dir.kind /\ loaded.header = dir.header
    /\ loaded.previous = dir.previous /\ loaded.metadata = dir.metadata
    /\ MapNames(loaded.entries) = MapNames(dir.entries)
    /\ \A i \in 1..Len(dir.entries) :
          LinkRef(W, loaded.entries[i].link) = LinkRef(W, dir.entries[i].link)

\* C6: the PrivateRef store() returns has the content CID that persisted_as
\* holds after the call and the temporal key and saturated name hash of the
\* current header; the forest entry at that hash contains the header CID and
\* the content CID; loading the ref yields an equal directory whose
\* persisted_as is the content CID.
C6_StoreReturnsLoadableRef ==
    Called(Len(hist), "store") =>
        LET dir == heap[roots[LastCall.h]]
            loaded == LoadNode(ret.ref, store)
        IN /\ dir.persisted_as # NoCid
           /\ ret.ref.content_cid = dir.persisted_as
           /\ ret.ref.temporal_key = DeriveTemporalKey(dir.header)
           /\ ret.ref.saturated_name_hash = GetSaturatedNameHash(dir.header)
           /\ ret.ref.saturated_name_hash \in DOMAIN forest
           /\ {HeaderMapCid(dir.header), ret.ref.content_cid}
                 \subseteq forest[ret.ref.saturated_name_hash]
           /\ loaded.ok
           /\ SameDirectory(World, loaded.node, dir)
           /\ loaded.node.persisted_as = ret.ref.content_cid

\* A root with entries, mutated after an earlier store, has been stored again
\* and the returned ref loads.
C6_Witness ==
    /\ Called(Len(hist), "store") /\ Called(Len(hist) - 1, "mkdir")
    /\ Len(heap[roots[LastCall.h]].entries) = 2
    /\ heap[roots[LastCall.h]].previous # {}
    /\ LoadNode(ret.ref, store).ok
    /\ Len(LoadNode(ret.ref, store).node.entries) = 2
    /\ ret.ref.content_cid = heap[roots[LastCall.h]].persisted_as

\* How a call's effect is observed: with the search_latest setting of the
\* call (same view), or with either setting.
Views(call, sameView) == IF sameView THEN {call.search_latest} ELSE BOOLEAN

NamesOf(list) == {list[i].name : i \in 1..Len(list)}
Prefix(path, k) == SubSeq(path, 1, k)

\* What rm must do in a step that calls it.
RmStep(sameView) ==
    (hist' # hist /\ Calling.op = "rm") =>
        LET c == Calling
            name == Last(c.path)
            parent == GetLeafDir(World, c.h, Front(c.path), c.search_latest)
            present == parent.result = "Found" /\ MapContainsKey(parent.dir.entries, name)
            err == hist'[Len(hist')].err
            again == /\ Called(Len(hist), "rm") /\ LastCall.h = c.h /\ LastCall.path = c.path
                     /\ (sameView => LastCall.search_latest = c.search_latest)
        IN /\ err = "" <=> present
           /\ err # "" => err = "NotFound"
           /\ again => err = "NotFound"
           /\ present =>
                /\ ret'.node = ResolveNode(World, MapLink(parent.dir.entries, name))
                /\ \A m \in Views(c, sameView) :
                      LET before == Ls(World, c.h, Front(c.path), m)
                          after == Ls(WorldNext, c.h, Front(c.path), m)
                      IN /\ after.err = ""
                         /\ after.list = SelectSeq(before.list, LAMBDA e : e.name # name)
                         /\ ~GetNode(WorldNext, c.h, c.path, m).found
                         /\ \A s \in NameSet \ {name} :
                               GetNode(WorldNext, c.h, Append(Front(c.path), s), m)
                                 = GetNode(World, c.h, Append(Front(c.path), s), m)

\* C7 as stated: rm(p) removes the entry from its parent and returns the
\* removed node; afterwards ls of the parent no longer lists it and the
\* sibling entries are unchanged; a second rm of the same path, an absent last
\* segment and an unreachable parent all fail with NotFound.
C7_Rm == [][RmStep(FALSE)]_vars

\* C7 amended: the same, the parent being listed before and after with the
\* search_latest setting of the rm, and the second rm running with the
\* setting of the first.
C7_RmSameView == [][RmStep(TRUE)]_vars

\* A file has been removed from a directory that keeps a sibling, and the
\* same rm has then failed.
C7_Witness ==
    /\ Called(Len(hist) - 1, "rm")
    /\ Len(hist) > 1 /\ LastCall.op = "rm" /\ hist[Len(hist)].err = "NotFound"
    /\ LastCall.path = <<"a">> /\ hist[Len(hist) - 1].call.path = <<"a">>
    /\ LastCall.search_latest = hist[Len(hist) - 1].call.search_latest
    /\ NamesOf(Ls(World, "root", <<>>, FALSE).list) = {"b"}

\* What mkdir must have done in a step where it succeeds.
MkdirStep(sameView) ==
    (hist' # hist /\ Calling.op = "mkdir" /\ hist'[Len(hist')].err = "") =>
        LET c == Calling IN
        \A m \in Views(c, sameView) :
            /\ \A k \in 1..Len(c.path) :
                  /\ GetNode(WorldNext, c.h, Prefix(c.path, k), m).found
                  /\ GetNode(WorldNext, c.h, Prefix(c.path, k), m).node.kind = "dir"
            /\ Last(c.path) \in NamesOf(Ls(WorldNext, c.h, Front(c.path), m).list)
            /\ \A k \in 0..Len(c.path) :
                  LET before == Ls(World, c.h, Prefix(c.path, k), m)
                      after == Ls(WorldNext, c.h, Prefix(c.path, k), m)
                  IN before.err = "" =>
                        /\ after.err = ""
                        /\ \A i \in 1..Len(before.list) :
                              \E j \in 1..Len(after.list) : after.list[j] = before.list[i]
                        /\ Ls(World, c.h, c.path, m).err = "" => after.list = before.list

\* C8 as stated: after mkdir(p) succeeds every prefix of p resolves to a
\* directory, ls(parent(p)) contains the last segment and get_node(p) is a
\* directory; the directories that were on p keep all their entries; mkdir of
\* a path that exists as directories changes no entries.
C8_Mkdir == [][MkdirStep(FALSE)]_vars

\* C8 amended: the same, the tree being looked at before and after with the
\* search_latest setting of the mkdir.
C8_MkdirSameView == [][MkdirStep(TRUE)]_vars

\* A directory has been created under an existing directory that keeps its file.
C8_Witness ==
    /\ Called(Len(hist), "mkdir") /\ LastCall.path = <<"a", "b">>
    /\ Called(Len(hist) - 1, "write") /\ hist[Len(hist) - 1].call.path = <<"a", "a">>
    /\ GetNode(World, "root", <<"a", "b">>, LastCall.search_latest).node.kind = "dir"
    /\ NamesOf(Ls(World, "root", <<"a">>, LastCall.search_latest).list) = {"a", "b"}

\* The handles whose view the last call can have changed: after a mutating
\* call the handle it went through (C3: the other one sees what it saw in the
\* state before, where it was looked at), otherwise every handle.
Touched ==
    IF Len(hist) > 0 /\ LastCall.op \in Mutators
    THEN {LastCall.h}
    ELSE {h \in Handles : roots[h] # NoAddr}

\* C9: ls(p) returns one (name, metadata) pair per child of the directory at
\* p, in ascending order of the names, in whatever order the children were
\* created; it fails with NotADirectory when the first segment of p that is
\* not a directory names a file, and with NotFound when it is absent.  top
\* and sub are the nodes lookup_node finds at the paths of one and two
\* segments.
C9_Ls ==
    \A h \in Touched, sl \in BOOLEAN :
        \A top \in {[n \in NameSet |-> LookupNode(World, heap[roots[h]], n, sl)]} :
        \A sub \in {[n \in NameSet |->
                       [m \in NameSet |->
                          IF top[n].found /\ top[n].node.kind = "dir"
                          THEN LookupNode(World, top[n].node, m, sl)
                          ELSE [found |-> FALSE, node |-> NoNode]]]} :
        \A p \in Paths \cup {<<>>} :
            LET at(k) == IF k = 1 THEN top[p[1]] ELSE sub[p[1]][p[2]]
                r == Ls(World, h, p, sl)
                bad == {k \in 1..Len(p) : ~at(k).found \/ at(k).node.kind # "dir"}
                dir == IF p = <<>> THEN heap[roots[h]] ELSE at(Len(p)).node
            IN IF bad = {}
               THEN /\ r.err = ""
                    /\ Len(r.list) = Len(dir.entries)
                    /\ \A i \in 1..Len(r.list) :
                          /\ r.list[i].name = dir.entries[i].name
                          /\ r.list[i].metadata
                               = ResolveNode(World, dir.entries[i].link).metadata
                    /\ \A i \in 1..(Len(r.list) - 1) :
                          Rank(r.list[i].name) < Rank(r.list[i + 1].name)
               ELSE r.err = IF at(Min(bad)).found THEN "NotADirectory" ELSE "NotFound"

\* b was created before a and ls lists a before b; ls through the file a/a
\* fails with NotADirectory and ls of the absent b/a with NotFound.
C9_Witness ==
    /\ Called(1, "mkdir") /\ hist[1].call.path = <<"b">>
    /\ Called(2, "write") /\ hist[2].call.path = <<"a", "a">>
    /\ Len(Ls(World, "root", <<>>, FALSE).list) = 2
    /\ Ls(World, "root", <<>>, FALSE).list[1].name = "a"
    /\ Ls(World, "root", <<>>, FALSE).list[2].name = "b"
    /\ Ls(World, "root", <<"a", "a">>, FALSE).err = "NotADirectory"
    /\ Ls(World, "root", <<"b", "a">>, FALSE).err = "NotFound"

\* The inumbers of the directories from the root down to the directory at path.
ChainOf(W, h, path, m) ==
    {W.heap[W.roots[h]].header.inumber}
      \cup {GetNode(W, h, Prefix(path, k), m).node.header.inumber : k \in 1..Len(path)}

\* The nodes of the subtree of a node, the node included.
RECURSIVE Subtree(_, _)
Subtree(W, node) ==
    {node} \cup UNION {Subtree(W, ResolveNode(W, node.entries[i].link)) :
                         i \in 1..Len(node.entries)}

\* Every node of the subtree has the bare name of its parent with its own
\* inumber added.
RECURSIVE AncestryOk(_, _, _)
AncestryOk(W, node, parent_bare_name) ==
    /\ node.header.bare_name = parent_bare_name \cup {node.header.inumber}
    /\ \A i \in 1..Len(node.entries) :
          AncestryOk(W, ResolveNode(W, node.entries[i].link), node.header.bare_name)

\* What cp must have done in a step where it succeeds; exact tells whether
\* the bare names are compared with the bare name of the new parent, or with
\* the inumbers of the new parent chain and of the old parent.
CpStep(sameView, exact) ==
    (hist' # hist /\ Calling.op = "cp" /\ hist'[Len(hist')].err = "") =>
        LET c == Calling
            src == GetNode(World, c.h, c.path, c.search_latest).node
            old_parent == GetLeafDir(World, c.h, Front(c.path), c.search_latest).dir.header.inumber
        IN \A m \in Views(c, sameView) :
              LET dst == GetNode(WorldNext, c.h, c.to, m)
                  chain == ChainOf(WorldNext, c.h, Front(c.to), m)
                  new_parent == GetLeafDir(WorldNext, c.h, Front(c.to), m).dir
                  copied == Subtree(WorldNext, dst.node)
              IN /\ dst.found
                 /\ Last(c.path) \in NamesOf(Ls(WorldNext, c.h, Front(c.path), m).list)
                 /\ Last(c.to) \in NamesOf(Ls(WorldNext, c.h, Front(c.to), m).list)
                 /\ dst.node.header.inumber = src.header.inumber
                 /\ new_parent.header.inumber \in dst.node.header.bare_name
                 /\ exact => AncestryOk(WorldNext, dst.node, new_parent.header.bare_name)
                 /\ ~exact => \A n \in copied : /\ chain \subseteq n.header.bare_name
                                                 /\ old_parent \notin n.header.bare_name

RECURSIVE SameContent(_, _, _, _)
SameContent(W1, n1, W2, n2) ==
    /\ n1.kind = n2.kind /\ n1.content = n2.content
    /\ Len(n1.entries) = Len(n2.entries)
    /\ \A i \in 1..Len(n1.entries) :
          /\ n1.entries[i].name = n2.entries[i].name
          /\ SameContent(W1, ResolveNode(W1, n1.entries[i].link),
                         W2, ResolveNode(W2, n2.entries[i].link))

\* What basic_mv must have done in a step where it succeeds, the destination
\* name having been free.  As the claim is amended the tree is looked at with
\* the search_latest setting of the call, the node moved is the one the entry
\* of the source parent holds (rm looks for no later revision of it), and the
\* bare names are compared with the bare name of the new parent.
MvStep(amended) ==
    (/\ hist' # hist /\ Calling.op = "basic_mv" /\ hist'[Len(hist')].err = ""
     /\ ~GetNode(World, Calling.h, Calling.to, Calling.search_latest).found) =>
        LET c == Calling
            old_parent == GetLeafDir(World, c.h, Front(c.path), c.search_latest).dir
            src == IF amended THEN LookupNode(World, old_parent, Last(c.path), FALSE).node
                   ELSE GetNode(World, c.h, c.path, c.search_latest).node
        IN \A m \in Views(c, amended) :
              LET dst == GetNode(WorldNext, c.h, c.to, m)
                  new_parent == GetLeafDir(WorldNext, c.h, Front(c.to), m).dir
              IN /\ ~GetNode(WorldNext, c.h, c.path, m).found
                 /\ Last(c.path) \notin NamesOf(Ls(WorldNext, c.h, Front(c.path), m).list)
                 /\ dst.found
                 /\ dst.node.header.inumber = src.header.inumber
                 /\ SameContent(World, src, WorldNext, dst.node)
                 /\ src.kind = "file" => Read(WorldNext, c.h, c.to, m) = Returned(src.content)
                 /\ new_parent.header.inumber \in dst.node.header.bare_name
                 /\ amended => AncestryOk(WorldNext, dst.node, new_parent.header.bare_name)
                 /\ ~amended => old_parent.header.inumber \notin dst.node.header.bare_name

Descendants(W, node) ==
    UNION {{n.header.inumber : n \in Subtree(W, ResolveNode(W, node.entries[i].link))} :
             i \in 1..Len(node.entries)}

\* No directory of the tree of a handle is below itself, a directory being
\* known by its inumber.
NoSelfDescendant(W) ==
    \A h \in {x \in Handles : W.roots[x] # NoAddr} :
       \A n \in Subtree(W, W.heap[W.roots[h]]) : n.header.inumber \notin Descendants(W, n)

\* No Rc is linked under itself: no address is reached from its own entries.
Acyclic(W) ==
    \A a \in DOMAIN W.heap :
       a \notin Reachable(W, {W.heap[a].entries[i].link.addr :
                                i \in {j \in 1..Len(W.heap[a].entries) :
                                         W.heap[a].entries[j].link.tag = "node"}})

\* path is strictly below the path above.
StrictlyBelow(path, above) ==
    Len(path) > Len(above) /\ SubSeq(path, 1, Len(above)) = above

Attaching == {"cp", "cp_link", "basic_mv"}

\* One of the two paths is the other or lies below it.
Overlap(p, q) == p = q \/ StrictlyBelow(p, q) \/ StrictlyBelow(q, p)

\* What cp, cp_link and basic_mv must do in a step whose destination is taken
\* or has no parent directory, the tree being looked at as the call does;
\* guarded tells whether a taken destination counts only when the source
\* exists and, for basic_mv, the two paths do not overlap.
NoOverwriteStep(guarded) ==
    (hist' # hist /\ Calling.op \in Attaching) =>
        LET c == Calling
            sl == c.search_latest
            err == hist'[Len(hist')].err
            parent == GetLeafDir(World, c.h, Front(c.to), sl)
            taken == /\ parent.result = "Found"
                     /\ MapContainsKey(parent.dir.entries, Last(c.to))
            counts == /\ GetNode(World, c.h, c.path, sl).found
                      /\ c.op = "basic_mv" => ~Overlap(c.path, c.to)
        IN /\ (taken /\ (guarded => counts)) =>
                 /\ err = "FileAlreadyExists"
                 /\ GetNode(WorldNext, c.h, c.to, sl) = GetNode(World, c.h, c.to, sl)
           /\ parent.result # "Found" =>
                 /\ err = "NotFound"
                 /\ GetLeafDir(WorldNext, c.h, Front(c.to), sl).result # "Found"
                 /\ \A p \in Paths :
                       GetNode(WorldNext, c.h, p, sl).found => GetNode(World, c.h, p, sl).found

\* C13 as stated: cp, cp_link and basic_mv fail with FileAlreadyExists when
\* the destination parent has an entry of the destination name, and leave
\* that entry unchanged; they fail with NotFound when the destination parent
\* does not exist, and create no directory.
C13_NeverOverwrite == [][NoOverwriteStep(FALSE)]_vars

\* C13 amended: the same, a taken destination being answered with
\* FileAlreadyExists and left unchanged when the source exists and, for
\* basic_mv, neither path is the other or lies below it.
C13_NeverOverwriteSourceApart == [][NoOverwriteStep(TRUE)]_vars

\* cp_link has linked the file a/a at b/a, and cp_link of a/a to the directory
\* b has then failed with FileAlreadyExists; b is the directory it was, with
\* the file in it.
C13_Witness ==
    /\ Len(hist) > 1
    /\ Called(Len(hist) - 1, "cp_link") /\ hist[Len(hist) - 1].call.path = <<"a", "a">>
    /\ hist[Len(hist) - 1].call.to = <<"b", "a">>
    /\ LastCall.op = "cp_link" /\ LastCall.path = <<"a", "a">> /\ LastCall.to = <<"b">>
    /\ hist[Len(hist)].err = "FileAlreadyExists"
    /\ GetNode(World, "root", <<"b">>, LastCall.search_latest).node.kind = "dir"
    /\ Read(World, "root", <<"b", "a">>, LastCall.search_latest) = Returned("One")

\* C14: read(path) fails with NotFound when a segment of the path is absent,
\* with NotAFile when the last segment names a directory, and with
\* NotADirectory when a segment before the last names a file.
C14_ReadErrors ==
    \A h \in Touched, sl \in BOOLEAN, p \in Paths :
        LET r == Read(World, h, p, sl)
            leaf == GetLeafDir(World, h, Front(p), sl)
            last == LookupNode(World, leaf.dir, Last(p), sl)
        IN /\ leaf.result = "Missing" => r.err = "NotFound"
           /\ leaf.result = "NotADir" => r.err = "NotADirectory"
           /\ (leaf.result = "Found" /\ ~last.found) => r.err = "NotFound"
           /\ (leaf.result = "Found" /\ last.found /\ last.node.kind = "dir")
                 => r.err = "NotAFile"

\* The file a has been written, and read of a/b, a path through the file,
\* fails with NotFound.
C14_Witness ==
    /\ Called(Len(hist), "write") /\ LastCall.path = <<"a">>
    /\ Read(World, LastCall.h, <<"a">>, FALSE) = Returned(LastCall.content)
    /\ GetLeafDir(World, LastCall.h, <<"a">>, FALSE).result = "NotADir"
    /\ Read(World, LastCall.h, <<"a", "b">>, FALSE).err = "NotFound"

\* The two nodes are of one kind and hold the same bytes and, as directories,
\* the same names with the same things under them, the entries being looked
\* up with the search_latest setting m, down to the given depth.
RECURSIVE SameContentSeen(_, _, _, _, _, _)
SameContentSeen(W1, n1, W2, n2, m, depth) ==
    /\ n1.kind = n2.kind /\ n1.content = n2.content
    /\ Len(n1.entries) = Len(n2.entries)
    /\ \A i \in 1..Len(n1.entries) :
          /\ n1.entries[i].name = n2.entries[i].name
          /\ depth > 0 =>
                SameContentSeen(W1, LookupNode(W1, n1, n1.entries[i].name, m).node,
                                W2, LookupNode(W2, n2, n2.entries[i].name, m).node,
                                m, depth - 1)

\* What write must do in a step where its last segment names a directory or
\* a segment before the last names a file, the tree being looked at as the
\* call does.
WriteRefusedStep(sameView) ==
    (hist' # hist /\ Calling.op = "write") =>
        LET c == Calling
            sl == c.search_latest
            err == hist'[Len(hist')].err
            leaf == GetLeafDir(World, c.h, Front(c.path), sl)
            last == LookupNode(World, leaf.dir, Last(c.path), sl)
            onDir == leaf.result = "Found" /\ last.found /\ last.node.kind = "dir"
            throughFile == leaf.result = "NotADir"
        IN /\ onDir => err = "DirectoryAlreadyExists"
           /\ throughFile => err = "NotADirectory"
           /\ (onDir \/ throughFile) =>
                 \A m \in Views(c, sameView) :
                    /\ \A p \in Paths :
                          LET before == GetNode(World, c.h, p, m)
                              after == GetNode(WorldNext, c.h, p, m)
                          IN /\ after.found = before.found
                             /\ after.found =>
                                  /\ after.node.header.inumber = before.node.header.inumber
                                  /\ SameContentSeen(World, before.node, WorldNext, after.node,
                                                     m, SeenDepth)
                    /\ Ls(WorldNext, c.h, c.path, m).err = Ls(World, c.h, c.path, m).err
                    /\ NamesOf(Ls(WorldNext, c.h, c.path, m).list)
                         = NamesOf(Ls(World, c.h, c.path, m).list)

\* C15 as stated: write(path, bytes) whose last segment names a directory
\* fails with DirectoryAlreadyExists and leaves the directory and its entries
\* in place; write with a file at a segment before the last fails with
\* NotADirectory; in neither case does any file entry appear, whichever way
\* the tree is looked at afterwards.
C15_WriteRefused == [][WriteRefusedStep(FALSE)]_vars

\* C15 amended: the same, the tree being looked at before and after with the
\* search_latest setting of the write.
C15_WriteRefusedSameView == [][WriteRefusedStep(TRUE)]_vars

\* A write to a, the directory that holds the file a/a, has failed with
\* DirectoryAlreadyExists; a is a directory and the file in it reads.
C15_Witness ==
    /\ Len(hist) > 0 /\ LastCall.op = "write" /\ LastCall.path = <<"a">>
    /\ hist[Len(hist)].err = "DirectoryAlreadyExists"
    /\ GetNode(World, LastCall.h, <<"a">>, LastCall.search_latest).node.kind = "dir"
    /\ Read(World, LastCall.h, <<"a", "a">>, LastCall.search_latest).err = ""

\* In the tree of every handle, the bare name of every child holds the bare
\* name of its parent.
Ancestry(W) ==
    \A h \in {x \in Handles : W.roots[x] # NoAddr} :
       \A n \in Subtree(W, W.heap[W.roots[h]]) :
          \A i \in 1..Len(n.entries) :
             n.header.bare_name \subseteq ResolveNode(W, n.entries[i].link).header.bare_name

Ratcheting == {"write", "mkdir", "rm", "cp", "basic_mv", "store"}

\* The node at the path is put there by the step: the destination of cp and
\* basic_mv and what is below it.
Attached(c, p) == c.op \in {"cp", "basic_mv"} /\ (p = c.to \/ StrictlyBelow(p, c.to))

\* What a step of write, mkdir, rm, cp, basic_mv or store does to the
\* inumbers and ratchets of the nodes of the tree; amended tells whether the
\* tree is looked at with the search_latest setting of the operation, and
\* whether the node moved by basic_mv gets a new ratchet.
RatchetStep(amended) ==
    (hist' # hist /\ Calling.op \in Ratcheting) =>
        LET c == Calling
            ok == hist'[Len(hist')].err = ""
            m == amended /\ c.search_latest
            Forward(r, s) == s.seed = r.seed /\ s.step \in {r.step, r.step + 1}
        IN /\ \A p \in Paths \cup {<<>>} :
                 LET before == IF p = <<>> THEN [found |-> TRUE, node |-> heap[roots[c.h]]]
                               ELSE GetNode(World, c.h, p, m)
                     after == IF p = <<>> THEN [found |-> TRUE, node |-> heap'[roots'[c.h]]]
                              ELSE GetNode(WorldNext, c.h, p, m)
                 IN (before.found /\ after.found /\ ~(ok /\ Attached(c, p))) =>
                       /\ after.node.header.inumber = before.node.header.inumber
                       /\ Forward(before.node.header.ratchet, after.node.header.ratchet)
           /\ (c.op = "basic_mv" /\ ok) =>
                 LET before == GetNode(World, c.h, c.path, c.search_latest).node
                     after == GetNode(WorldNext, c.h, c.to, m).node
                 IN /\ after.header.inumber = before.header.inumber
                    /\ ~amended => Forward(before.header.ratchet, after.header.ratchet)
                    /\ amended => after.header.ratchet.seed # before.header.ratchet.seed

C18_ForestGrows ==
    [][hist' # hist =>
         /\ \A label \in DOMAIN forest :
               label \in DOMAIN forest' /\ forest[label] \subseteq forest'[label]
         /\ \A cid \in DOMAIN store : cid \in DOMAIN store' /\ store'[cid] = store[cid]
         /\ Calling.op # "store" => forest' = forest
         /\ \A label \in DOMAIN forest :
               \A cid \in {c \in forest[label] : c.tag = "content"} :
                  LET ref == [saturated_name_hash |-> label,
                              temporal_key |-> label.sha3.key,
                              content_cid |-> cid]
                  IN /\ LoadNode(ref, store').ok
                     /\ LoadNode(ref, store') = LoadNode(ref, store)
                     /\ GetSaturatedNameHash(LoadNode(ref, store').node.header) = label]_vars

\* The directory a has been removed through root and root stored; the clone,
\* which holds the tree as it was stored before, still finds the file a/a in
\* the forest, and root does not.
C18_Witness ==
    /\ Called(Len(hist) - 1, "rm") /\ hist[Len(hist) - 1].call.path = <<"a">>
    /\ hist[Len(hist) - 1].call.h = "root"
    /\ Called(Len(hist), "store") /\ LastCall.h = "root"
    /\ roots["clone"] # NoAddr
    /\ Read(World, "clone", <<"a", "a">>, TRUE) = Returned("One")
    /\ ~GetNode(World, "root", <<"a">>, TRUE).found
    /\ Cardinality(DOMAIN forest) >= 5

\* The header of the revision both writers start from.
BaseHeader == Run(ScriptCloned, ord).W.heap[Run(ScriptCloned, ord).W.roots["root"]].header

\* C19: each of the two writers, once it has mutated its clone of the stored
\* revision, holds a root with the bare name of the base and the ratchet of
\* the base advanced by one, so both store under one label; after both
\* stores, in either order, the forest holds under that label the content
\* CIDs of both writers (and the one header CID), and each writer's revision
\* loads from its ref as the directory the writer holds.
C19_WritersUnion ==
    LET next == AdvanceRatchet(BaseHeader)
        label == GetSaturatedNameHash(next)
        cid(h) == heap[roots[h]].persisted_as
    IN /\ \A h \in Handles : CallsOf(h) >= 1 => heap[roots[h]].header = next
       /\ (\A h \in Handles : CallsOf(h) = 2) =>
             /\ label \in DOMAIN forest
             /\ cid("root") # NoCid /\ cid("clone") # NoCid /\ cid("root") # cid("clone")
             /\ forest[label] = {HeaderMapCid(next), cid("root"), cid("clone")}
             /\ \A h \in Handles :
                   LET loaded == LoadNode(AsPrivateRef(DeriveRevisionRef(next), cid(h)), store)
                   IN /\ loaded.ok
                      /\ SameDirectory(World, loaded.node, heap[roots[h]])
                      /\ loaded.node.persisted_as = cid(h)

\* Both writers have written different bytes to a/a and stored, the clone
\* storing first and root last; the label holds both content CIDs, and each
\* writer reads back its own bytes.
C19_Witness ==
    /\ Len(hist) = Len(ScriptCloned) + 4
    /\ Called(Len(hist), "store") /\ LastCall.h = "root"
    /\ Called(Len(hist) - 1, "store") /\ hist[Len(hist) - 1].call.h = "clone"
    /\ Read(World, "root", <<"a", "a">>, FALSE) = Returned("Two")
    /\ Read(World, "clone", <<"a", "a">>, FALSE) = Returned("One")
    /\ hist[Len(hist) - 3].call.content = "Two"
    /\ {heap[roots["root"]].persisted_as, heap[roots["clone"]].persisted_as}
         \subseteq forest[GetSaturatedNameHash(heap[roots["root"]].header)]
    /\ Cardinality(forest[GetSaturatedNameHash(heap[roots["root"]].header)]) = 3

\* The calls of put_serializable that returned a CID.
Puts == {i \in 1..Len(hist) : hist[i].op = "put_serializable" /\ hist[i].err = ""}

ClientCall == hist'[Len(hist')]

\* C21: create_cid fails with MaximumBlockSizeExceeded exactly when the block
\* is longer than MAX_BLOCK_SIZE, and gives otherwise the CIDv1 of the codec
\* and the SHA-256 of the bytes; put_block of a ClientNetworkBlockStore
\* returns that error for a block that is too long, and for no other block,
\* and has sent nothing when it does.
C21_CreateCid ==
    /\ [](\A bytes \in Blocks, codec \in Codecs :
            /\ (CreateCid(bytes, codec).err = "MaximumBlockSizeExceeded")
                  <=> (Len(bytes) > MAX_BLOCK_SIZE)
            /\ Len(bytes) <= MAX_BLOCK_SIZE =>
                  /\ CreateCid(bytes, codec).err = ""
                  /\ CreateCid(bytes, codec).cid
                       = [version |-> 1, codec |-> codec, hash |-> [sha2_256 |-> bytes]])
    /\ [][(hist' # hist /\ ClientCall.op = "put_block") =>
            /\ (Len(ClientCall.bytes) > MAX_BLOCK_SIZE) <=>
                  (ClientCall.end = "Err" /\ ClientCall.err = "MaximumBlockSizeExceeded")
            /\ Len(ClientCall.bytes) > MAX_BLOCK_SIZE => sent' = sent]_vars

\* put_block of a block of one byte more than MAX_BLOCK_SIZE has returned the
\* error, after put_block of a block of MAX_BLOCK_SIZE bytes that did not,
\* and nothing has been sent.
C21_Witness ==
    /\ Len(hist) = 2
    /\ hist[1].op = "put_block" /\ Len(hist[1].bytes) = MAX_BLOCK_SIZE
    /\ hist[1].err # "MaximumBlockSizeExceeded"
    /\ hist[2].op = "put_block" /\ Len(hist[2].bytes) = MAX_BLOCK_SIZE + 1
    /\ hist[2].end = "Err" /\ hist[2].err = "MaximumBlockSizeExceeded"
    /\ sent = <<>>

\* C22: put_block of a ClientNetworkBlockStore sends the bytes of the block
\* in its request and returns the CID, and get_block sends the CID to the
\* block/get endpoint of the address the client was made with.
C22_ClientHonoursContract ==
    [][hist' # hist =>
         /\ (ClientCall.op = "put_block" /\ Len(ClientCall.bytes) <= MAX_BLOCK_SIZE) =>
               /\ ClientCall.end = "Ok"
               /\ Len(sent') = Len(sent) + 1
               /\ sent'[Len(sent')].body = ClientCall.bytes
         /\ ClientCall.op = "get_block" =>
               /\ Len(sent') = Len(sent) + 1
               /\ sent'[Len(sent')].arg = ClientCall.cid
               /\ sent'[Len(sent')].uri.authority = Addr
               /\ sent'[Len(sent')].uri.path = <<"api", "v0", "block", "get">>]_vars

\* put_block of a block of one byte has ended in a panic with nothing sent.
C22_Witness ==
    /\ Len(hist) = 1 /\ hist[1].op = "put_block" /\ hist[1].bytes = <<1>>
    /\ hist[1].end = "panic" /\ sent = <<>>

\* The threads that have ended, and what their requests are.
EndedThreads == {i \in 1..Len(threads) : Ended(threads[i])}
WellFormed(buf) == Len(buf) >= 2 /\ Len(buf) >= 2 + buf[2] /\ CidTryFrom(SubSeq(buf, 3, 2 + buf[2])).ok
IsWrite(i) == WellFormed(threads[i].buf) /\ threads[i].buf[1] = 0
IsRead(i) == WellFormed(threads[i].buf) /\ threads[i].buf[1] = 1
SameFile(i, j) == CidOf(threads[i].buf) = CidOf(threads[j].buf)

\* The writes of the file of the read i that were acknowledged before the
\* read began, and whether every write of the file ran apart from the read
\* and from the other writes.
AckedBefore(i) ==
    {w \in EndedThreads : /\ IsWrite(w) /\ SameFile(w, i) /\ threads[w].end = "Ok"
                          /\ threads[w].ended < threads[i].began}
Apart(i, j) ==
    \/ (Ended(threads[i]) /\ threads[i].ended < threads[j].began)
    \/ (Ended(threads[j]) /\ threads[j].ended < threads[i].began)
RanAlone(i) ==
    \A w, x \in {j \in 1..Len(threads) : (IsWrite(j) /\ SameFile(j, i)) \/ j = i} :
       w # x => Apart(w, x)

\* C23: a thread that has ended a well-formed write request has answered with
\* the one byte 1, and a thread that has ended a read of a CID written
\* earlier, the requests of the CID having run one after the other, has
\* answered with the bytes of the last write acknowledged before it.
C23_ServerProtocol ==
    \A i \in EndedThreads :
       /\ IsWrite(i) => threads[i].end = "Ok" /\ threads[i].out = <<1>>
       /\ (IsRead(i) /\ RanAlone(i) /\ AckedBefore(i) # {}) =>
             LET last == CHOOSE w \in AckedBefore(i) :
                            \A x \in AckedBefore(i) : threads[x].ended <= threads[w].ended
             IN threads[i].end = "Ok" /\ threads[i].out = DataOf(threads[last].buf)

\* A write of one byte under the short CID, a request of seven bytes, has
\* stored the byte and ended in a panic without an answer.
C23_Witness ==
    /\ Len(threads) = 1 /\ threads[1].buf = WriteRequest(ShortCid, <<5>>)
    /\ threads[1].end = "panic" /\ threads[1].out = <<>>
    /\ files[FilePath(CidOf(threads[1].buf))] = <<5>>

\* C24: a read that has answered has answered with the whole payload of a
\* write request of its CID, and when every thread has ended a file that was
\* written holds the whole payload of one write request of its CID.
C24_ConcurrentPutGet ==
    /\ \A i \in EndedThreads :
          (IsRead(i) /\ threads[i].end = "Ok") =>
             \E w \in 1..Len(threads) :
                IsWrite(w) /\ SameFile(w, i) /\ threads[i].out = DataOf(threads[w].buf)
    /\ (\A i \in 1..Len(threads) : Ended(threads[i])) =>
          \A w \in 1..Len(threads) :
             IsWrite(w) =>
                \E x \in 1..Len(threads) :
                   /\ IsWrite(x) /\ SameFile(x, w)
                   /\ files[FilePath(CidOf(threads[w].buf))] = DataOf(threads[x].buf)

\* A read of the long CID has answered with no byte while the write of two
\* bytes under that CID had made the file and not yet written to it.
C24_Witness ==
    /\ Len(threads) = 2
    /\ threads[1].buf = WriteRequest(LongCid, <<6, 7>>) /\ threads[1].pc = "write"
    /\ threads[1].pos = 0
    /\ threads[2].buf = ReadRequest(LongCid) /\ threads[2].end = "Ok" /\ threads[2].out = <<>>

\* C25: no call of put_block or get_block of the client ends in a panic, and
\* no handler thread of the server does: a request that is empty or
\* malformed and a read of a CID never written end handle_client with an
\* error that does not bring the thread down.
C25_FailuresSurface ==
    /\ \A i \in 1..Len(hist) : hist[i].end # "panic"
    /\ \A i \in 1..Len(threads) : ~ThreadPanicked(threads[i])

\* The server has got a request of no byte and a read of a CID never
\* written: the first thread has panicked in handle_client, the second on the
\* error handle_client returned.
C25_Witness ==
    /\ Len(threads) = 2
    /\ threads[1].buf = <<>> /\ threads[1].end = "panic"
    /\ threads[2].buf = ReadRequest(LongCid) /\ threads[2].end = "Err"
    /\ ThreadPanicked(threads[2])

\* ------------------------------------------------------------------ headers and versions

\* The headers stored and loaded: with_seed headers, fresh or advanced once.
HeaderSeeds == 1..2
Headers ==
    {[HeaderWithSeed({9}, s, 1) EXCEPT !.ratchet = RatchetIncBy(@, k)] :
        s \in HeaderSeeds, k \in 0..1}
FreshHeaders == {h \in Headers : h.ratchet.step = 0}
HeaderKeys == {DeriveTemporalKey(h) : h \in Headers}
HeaderFields == {"inumber", "ratchet", "bare_name"}

\* The versions a serialized node may carry.
Versions == [major : 0..1, minor : 1..3, patch : {0, 7}]

\* What may be wrong with a header in the store a load is given.
Damages ==
    {[what |-> "none", field |-> ""], [what |-> "nomap", field |-> ""],
     [what |-> "notmap", field |-> ""]}
    \cup [what : {"nolink", "nonlink", "noblock", "rekey"}, field : HeaderFields]

Without(blocks, cid) == [c \in DOMAIN blocks \ {cid} |-> blocks[c]]

\* The store that holds header h with damage d.
Damaged(h, d) ==
    LET good == HeaderStore(h, <<>>)
        map == good[HeaderMapCid(h)]
        fcid == HeaderFieldCid(d.field, h)
    IN CASE d.what = "none" -> good
         [] d.what = "nomap" -> Without(good, HeaderMapCid(h))
         [] d.what = "notmap" ->
              PutBlock(good, HeaderMapCid(h), good[HeaderFieldCid("inumber", h)])
         [] d.what = "nolink" ->
              PutBlock(good, HeaderMapCid(h),
                       CASE d.field = "inumber" -> [map EXCEPT !.inumber = NoEntry]
                         [] d.field = "ratchet" -> [map EXCEPT !.ratchet = NoEntry]
                         [] OTHER -> [map EXCEPT !.bare_name = NoEntry])
         [] d.what = "nonlink" ->
              PutBlock(good, HeaderMapCid(h),
                       CASE d.field = "inumber" -> [map EXCEPT !.inumber = IpldString]
                         [] d.field = "ratchet" -> [map EXCEPT !.ratchet = IpldString]
                         [] OTHER -> [map EXCEPT !.bare_name = IpldString])
         [] d.what = "noblock" -> Without(good, fcid)
         [] OTHER -> PutBlock(good, fcid, [good[fcid] EXCEPT !.key = ZeroKey])

\* The serialized content of an empty-handed directory with one encrypted
\* entry, as store() writes it for header h, carrying version v.
SerializableOf(h, v) ==
    [kind |-> "dir",
     version |-> v,
     previous |-> {},
     header_cid |-> HeaderMapCid(h),
     metadata |-> MetadataNew(0),
     entries |-> <<[name |-> "a",
                    ref |-> RefToSerializable(
                              AsPrivateRef(DeriveRevisionRef(HeaderWithSeed(h.bare_name, 2, 2)),
                                           ContentCid(2)),
                              DeriveTemporalKey(h))]>>,
     content |-> ""]

PublicSerializableOf(v) ==
    [version |-> v, metadata |-> MetadataNew(0), userland |-> ContentCid(2), previous |-> {}]

MaxHeaderOps == 2

InitHeader ==
    /\ \E h \in Headers, d \in Damages : store = Damaged(h, d)
    /\ heap = <<>> /\ roots = <<>> /\ forest = <<>> /\ fresh = 0 /\ ord = <<>>
    /\ hist = <<>> /\ ret = <<>> /\ clock = 0
    /\ NoNetwork

HeaderUnchanged == UNCHANGED <<heap, roots, forest, fresh, ord, ret, sent, files, threads>>

NoVersion == [major |-> 0, minor |-> 0, patch |-> 0]

HeaderCall(op, h, key, v, ok, err, header, found) ==
    [op |-> op, h |-> h, key |-> key, version |-> v, ok |-> ok, err |-> err,
     header |-> header, found |-> found, parent |-> {}, time |-> 0]

\* header.store(store)
DoHeaderStore ==
    /\ clock < MaxHeaderOps
    /\ \E h \in Headers :
         /\ store' = HeaderStore(h, store)
         /\ hist' = Append(hist, HeaderCall("store", h, ZeroKey, NoVersion, TRUE, "",
                                            h, NoVersion))
    /\ clock' = clock + 1
    /\ HeaderUnchanged

\* PrivateNodeHeader::load_temporal(cid of h's map block, key, store)
DoLoadTemporal ==
    /\ clock < MaxHeaderOps
    /\ \E h \in Headers, key \in HeaderKeys :
         LET r == LoadTemporal(HeaderMapCid(h), key, store)
         IN hist' = Append(hist, HeaderCall("load_temporal", h, key, NoVersion, r.ok, "",
                                            r.header, NoVersion))
    /\ clock' = clock + 1
    /\ UNCHANGED store
    /\ HeaderUnchanged

\* PrivateNodeHeader::load_snapshot(cid of h's map block, snapshot key, store)
DoLoadSnapshot ==
    /\ clock < MaxHeaderOps
    /\ \E h \in Headers, key \in HeaderKeys :
         LET r == LoadSnapshot(HeaderMapCid(h), DeriveSnapshotKey(key), store)
         IN hist' = Append(hist, HeaderCall("load_snapshot", h, DeriveSnapshotKey(key),
                                            NoVersion, r.ok, "", r.header, NoVersion))
    /\ clock' = clock + 1
    /\ UNCHANGED store
    /\ HeaderUnchanged

FoundOf(r) == IF r.err = "UnexpectedVersion" THEN r.found ELSE NoVersion

\* PrivateDirectory::from_serializable_temporal
DoFromSerializableTemporal ==
    /\ clock < MaxHeaderOps
    /\ \E h \in FreshHeaders, v \in Versions :
         LET r == FromSerializableTemporal(SerializableOf(h, v), DeriveTemporalKey(h),
                                           ContentCid(1), store)
         IN hist' = Append(hist, HeaderCall("from_serializable_temporal", h,
                                            DeriveTemporalKey(h), v, r.ok, r.err,
                                            r.node.header, FoundOf(r)))
    /\ clock' = clock + 1
    /\ UNCHANGED store
    /\ HeaderUnchanged

\* PrivateDirectory::from_serializable_snapshot
DoFromSerializableSnapshot ==
    /\ clock < MaxHeaderOps
    /\ \E h \in FreshHeaders, v \in Versions :
         LET key == DeriveSnapshotKey(DeriveTemporalKey(h))
             r == FromSerializableSnapshot(SerializableOf(h, v), key, ContentCid(1), store)
         IN hist' = Append(hist, HeaderCall("from_serializable_snapshot", h, key, v,
                                            r.ok, r.err, r.node.header, FoundOf(r)))
    /\ clock' = clock + 1
    /\ UNCHANGED store
    /\ HeaderUnchanged

\* PublicFile::from_serializable
DoPublicFileFromSerializable ==
    /\ clock < MaxHeaderOps
    /\ \E v \in Versions :
         LET r == PublicFileFromSerializable(PublicSerializableOf(v))
         IN hist' = Append(hist, HeaderCall("from_serializable", ZeroHeader, ZeroKey, v,
                                            r.ok, r.err, ZeroHeader, FoundOf(r)))
    /\ clock' = clock + 1
    /\ UNCHANGED store
    /\ HeaderUnchanged

\* PrivateDirectory::with_seed(parent_bare_name, time, ratchet_seed, inumber)
DoWithSeed ==
    /\ clock < MaxHeaderOps
    /\ \E parent \in {{9}, {1}, {2}}, time \in 1..2, seed \in HeaderSeeds, inumber \in 1..2 :
         LET dir == DirWithSeed(parent, time, seed, inumber)
             args == [inumber |-> inumber, ratchet |-> RatchetZero(seed),
                      bare_name |-> parent]
         IN hist' = Append(hist, [HeaderCall("with_seed", args, ZeroKey, NoVersion,
                                             TRUE, "", dir.header, NoVersion)
                                  EXCEPT !.parent = parent, !.time = dir.metadata.created])
    /\ clock' = clock + 1
    /\ UNCHANGED store
    /\ HeaderUnchanged

NextHeader ==
    \/ DoHeaderStore
    \/ DoLoadTemporal
    \/ DoLoadSnapshot
    \/ DoFromSerializableTemporal
    \/ DoFromSerializableSnapshot
    \/ DoPublicFileFromSerializable
    \/ DoWithSeed

SpecHeader == InitHeader /\ [][NextHeader]_vars

HeaderCalls == {hist[i] : i \in 1..Len(hist)}

\* C26: the three loaders fail with UnexpectedVersion, carrying the version
\* they found, exactly when the major version is not 0 or the minor version is
\* not 2; two versions that differ in the patch alone get the same outcome.
C26_VersionGate ==
    /\ \A c \in HeaderCalls :
         c.op \in {"from_serializable_temporal", "from_serializable_snapshot",
                   "from_serializable"} =>
           /\ (c.err = "UnexpectedVersion") <=> (c.version.major # 0 \/ c.version.minor # 2)
           /\ c.err = "UnexpectedVersion" => ~c.ok /\ c.found = c.version
    /\ \A i \in 1..(Len(hist) - 1) :
         LET c == hist[i]
             d == hist[i + 1]
         IN /\ c.op \in {"from_serializable_temporal", "from_serializable_snapshot",
                          "from_serializable"}
            /\ c.op = d.op /\ c.h = d.h /\ c.key = d.key
            /\ c.version.major = d.version.major /\ c.version.minor = d.version.minor
            => c.ok = d.ok /\ c.err = d.err /\ c.header = d.header

\* A snapshot load of version 0.3.0 was refused and then the same load of
\* version 0.2.7 went through.
C26_Witness ==
    /\ Len(hist) = 2
    /\ hist[1].op = "from_serializable_snapshot" /\ hist[1].err = "UnexpectedVersion"
    /\ hist[1].version = [major |-> 0, minor |-> 3, patch |-> 0]
    /\ hist[2].op = "from_serializable_snapshot" /\ hist[2].ok
    /\ hist[2].version = [major |-> 0, minor |-> 2, patch |-> 7]
    /\ hist[2].h = hist[1].h

NewCall == hist'[Len(hist')]

\* C27: a header stored into any store loads back: load_temporal with the
\* header's temporal key returns the header itself, load_snapshot with the
\* snapshot key derived from it returns the same inumber and bare_name and the
\* ratchet Ratchet::zero of the zero seed.
C27_HeaderRoundTrip ==
    /\ \A h \in Headers :
         LET tk == DeriveTemporalKey(h)
             stored == HeaderStore(h, store)
             t == LoadTemporal(HeaderMapCid(h), tk, stored)
             n == LoadSnapshot(HeaderMapCid(h), DeriveSnapshotKey(tk), stored)
         IN /\ t.ok /\ t.header = h
            /\ n.ok /\ n.header.inumber = h.inumber /\ n.header.bare_name = h.bare_name
            /\ n.header.ratchet = RatchetZero(0)
    /\ \A i \in 1..Len(hist), j \in 1..Len(hist) :
         /\ i < j /\ hist[i].op = "store" /\ hist[j].h = hist[i].h
         => /\ hist[j].op = "load_temporal" /\ hist[j].key = DeriveTemporalKey(hist[i].h)
               => hist[j].ok /\ hist[j].header = hist[i].h
            /\ /\ hist[j].op = "load_snapshot"
               /\ hist[j].key = DeriveSnapshotKey(DeriveTemporalKey(hist[i].h))
               => /\ hist[j].ok
                  /\ hist[j].header = [hist[i].h EXCEPT !.ratchet = RatchetZero(0)]

\* A header whose ratchet has moved was stored, and load_snapshot gave it back
\* with the placeholder ratchet.
C27_Witness ==
    /\ Len(hist) = 2
    /\ hist[1].op = "store" /\ hist[1].h.ratchet.step = 1
    /\ hist[2].op = "load_snapshot" /\ hist[2].h = hist[1].h /\ hist[2].ok
    /\ hist[2].header.ratchet = RatchetZero(0)
    /\ hist[2].header.inumber = hist[1].h.inumber
    /\ hist[2].header.ratchet # hist[1].h.ratchet

\* The value the header map block holds under a field's name.
MapEntry(map, field) ==
    CASE field = "inumber" -> map.inumber
      [] field = "ratchet" -> map.ratchet
      [] OTHER -> map.bare_name

\* The key a field is wrapped with, given the temporal key of the header.
WrapKey(field, tk) == IF field = "ratchet" THEN tk ELSE DeriveSnapshotKey(tk)

\* What is wrong, for a reader of the given fields who holds the keys derived
\* from tk, with the header whose map block is at cid: the map lacks a link
\* or holds something else in its place, a linked block is not in the store,
\* or a linked block is wrapped under another key.
Broken(blocks, cid, tk, fields) ==
    /\ cid \in DOMAIN blocks
    /\ blocks[cid].kind = "map"
    /\ \E f \in fields :
         LET v == MapEntry(blocks[cid], f)
         IN \/ ~IsLink(v)
            \/ v \notin DOMAIN blocks
            \/ blocks[v].key # WrapKey(f, tk)

\* A failed load returns no header.
NoHeaderOnFailure ==
    \A i \in 1..Len(hist) :
       hist[i].op \in {"load_temporal", "load_snapshot"} /\ ~hist[i].ok
       => hist[i].header = ZeroHeader

\* The step is no load of a broken header or the load fails; snapshot_fields
\* are the fields whose damage load_snapshot is held to report.
LoadFails(snapshot_fields) ==
    /\ hist' # hist
    /\ NewCall.op \in {"load_temporal", "load_snapshot"}
    /\ Broken(store, HeaderMapCid(NewCall.h),
              [NewCall.key EXCEPT !.kind = "temporal"],
              IF NewCall.op = "load_temporal" THEN HeaderFields ELSE snapshot_fields)
    => ~NewCall.ok /\ NewCall.header = ZeroHeader

\* C28: load_temporal and load_snapshot alike fail, returning no header,
\* whenever the map block lacks one of the links inumber, ratchet, bare_name
\* or holds a non-link there, a linked block is missing, or a wrapped field
\* is not decryptable with the given key.
C28_LoadFails == []NoHeaderOnFailure /\ [][LoadFails(HeaderFields)]_vars

\* C28 as amended: load_temporal fails so for each of inumber, ratchet and
\* bare_name; load_snapshot fails so for inumber and bare_name, and does not
\* look at the ratchet entry or its block.
C28_LoadFailsAmended == []NoHeaderOnFailure /\ [][LoadFails({"inumber", "bare_name"})]_vars

\* On a store whose header map lacks the ratchet link, load_temporal failed
\* and load_snapshot of the same header returned it.
C28_Witness ==
    /\ Len(hist) = 2
    /\ hist[1].op = "load_temporal" /\ ~hist[1].ok
    /\ hist[1].key = DeriveTemporalKey(hist[1].h)
    /\ hist[2].op = "load_snapshot" /\ hist[2].ok /\ hist[2].h = hist[1].h
    /\ store[HeaderMapCid(hist[1].h)].ratchet = NoEntry

WithSeedCalls == {c \in HeaderCalls : c.op = "with_seed"}

\* C29: two directories made by with_seed from the same parent bare name,
\* ratchet seed and inumber, at whatever times, have the same temporal key,
\* the same saturated name and the same saturated-name hash; and two headers
\* of one bare name get the same saturated name from the same temporal key.
C29_Deterministic ==
    /\ \A c \in WithSeedCalls, d \in WithSeedCalls :
         c.h = d.h
         => /\ DeriveTemporalKey(c.header) = DeriveTemporalKey(d.header)
            /\ GetSaturatedName(c.header) = GetSaturatedName(d.header)
            /\ GetSaturatedNameHash(c.header) = GetSaturatedNameHash(d.header)
    /\ \A c \in WithSeedCalls, d \in WithSeedCalls, tk \in HeaderKeys :
         c.header.bare_name = d.header.bare_name
         => GetSaturatedNameWithKey(c.header, tk) = GetSaturatedNameWithKey(d.header, tk)

\* Two directories were made at different times from the same parent bare
\* name, ratchet seed and inumber.
C29_Witness ==
    /\ Len(hist) = 2
    /\ hist[1].op = "with_seed" /\ hist[2].op = "with_seed"
    /\ hist[1].h = hist[2].h
    /\ hist[1].time # hist[2].time
    /\ hist[1].header.bare_name = NamefilterAdd(hist[1].parent, hist[1].header.inumber)

\* ------------------------------------------------------------------ revisions

\* The calls made on one directory between and after its stores.
MaxRevOps == 5

RevCalls ==
    {CallMkdir("root", <<"a">>, FALSE),
     CallMkdir("root", <<"a", "b">>, TRUE),
     CallWrite("root", <<"a", "a">>, FALSE, "One"),
     CallWrite("root", <<"b">>, TRUE, "Two"),
     CallRm("root", <<"a">>, FALSE),
     CallRm("root", <<"b", "a">>, TRUE),
     CallCp("root", <<"b">>, <<"a", "b">>, FALSE),
     CallCpLink("root", <<"a">>, <<"b">>, FALSE),
     CallBasicMv("root", <<"a">>, <<"b">>, FALSE)}

InitRevisions == StartsAt(Run(<<>>, "min"))

RevMutate == \E call \in RevCalls : clock < MaxRevOps /\ Step(call)

RevStore == clock < MaxRevOps /\ Step(CallStore("root"))

NextRevisions == RevMutate \/ RevStore

SpecRevisions == InitRevisions /\ [][NextRevisions]_vars

RootDir == heap[roots["root"]]

\* The world the j-th call of the history was made in.
Before(j) == Run([i \in 1..(j - 1) |-> hist[i].call], ord).W

\* The j-th call has run prepare_next_revision on the directory it was made
\* through: rm, write, mkdir and basic_mv start with it, cp and cp_link
\* come to it (in attach) once get_node has found their source.
Prepares(j) ==
    LET c == hist[j].call
    IN \/ c.op \in {"write", "mkdir", "rm", "basic_mv"}
       \/ /\ c.op \in {"cp", "cp_link"}
          /\ GetNode(Before(j), c.h, c.path, c.search_latest).found

\* The stores of the directory that a call has mutated it after, before the
\* next store; with prepared, the call is one that has run
\* prepare_next_revision.
StoresThenMutated(prepared) ==
    {i \in 1..Len(hist) :
       /\ hist[i].call.op = "store"
       /\ \E j \in (i + 1)..Len(hist) :
            /\ \A k \in i..j : hist[k].call.op = "store" <=> k = i
            /\ prepared => Prepares(j)}

\* prepare_next_revision on the directory as it stands.
Prepared ==
    LET W1 == PrepareNextRevision(World, RootSlot("root"))
    IN W1.heap[SlotGet(W1, RootSlot("root"))]

\* prepare_next_revision does its bookkeeping on the directory as it stands.
Bookkeeping ==
    IF RootDir.persisted_as = NoCid
    THEN /\ Prepared.header.ratchet = RootDir.header.ratchet
         /\ Prepared.previous = RootDir.previous
    ELSE /\ Prepared.persisted_as = NoCid
         /\ Prepared.previous =
              {<<1, EncryptedFromValue(RootDir.persisted_as,
                                       DeriveTemporalKey(RootDir.header))>>}
         /\ Prepared.header.ratchet = RatchetInc(RootDir.header.ratchet)

\* C30: prepare_next_revision leaves ratchet and previous alone on a directory
\* that is not stored, and on a stored one clears persisted_as, makes previous
\* the one link to the stored revision and moves the ratchet one step; so the
\* ratchet stands as many steps from its start as there were stores that a
\* mutation came after.
C30_RevisionBumps ==
    /\ Bookkeeping
    /\ RootDir.header.ratchet
         = RatchetIncBy(RatchetZero(2), Cardinality(StoresThenMutated(FALSE)))

\* C30 as amended: the stores that count are those followed by a call that
\* has run prepare_next_revision on the directory, whether the call then
\* succeeded or failed: any rm, write, mkdir or basic_mv, and a cp or cp_link
\* whose source was found.
C30_RevisionBumpsPrepared ==
    /\ Bookkeeping
    /\ RootDir.header.ratchet
         = RatchetIncBy(RatchetZero(2), Cardinality(StoresThenMutated(TRUE)))

\* The directory was stored twice: after the first store came an rm that
\* failed and a write, after the second a cp whose source was not found; its
\* ratchet stands at step one.
C30_Witness ==
    /\ Len(hist) = 5
    /\ hist[1].call.op = "store"
    /\ hist[2].call.op = "rm" /\ hist[2].err = "NotFound"
    /\ hist[3].call.op = "write" /\ hist[3].err = ""
    /\ hist[4].call.op = "store"
    /\ hist[5].call.op = "cp" /\ hist[5].err = "NotFound" /\ ~Prepares(5)
    /\ RootDir.header.ratchet.step = 1

\* ------------------------------------------------------------------ revisions of a written path

\* Every node of the tree of handle h is stored.
FullyStored(W, h) ==
    \A n \in Subtree(W, W.heap[W.roots[h]]) : n.persisted_as # NoCid

\* The node at path p of the tree of handle h, the root for the empty path;
\* m tells whether the path is walked with search_latest.
NodeAt(W, h, p, m) ==
    IF p = <<>> THEN [found |-> TRUE, node |-> W.heap[W.roots[h]]]
    ELSE GetNode(W, h, p, m)

OnPath(p, path) == p = path \/ StrictlyBelow(path, p)

\* What a successful write on a fully stored tree does to the revisions of
\* the nodes; amended tells whether the tree before is looked at with the
\* search_latest setting of the write, and whether the directories and the
\* file that the write creates are set apart.
FreshChain(amended) ==
    (/\ hist' # hist /\ Calling.op = "write" /\ hist'[Len(hist')].err = ""
     /\ FullyStored(World, Calling.h)) =>
        LET c == Calling
            m == amended /\ c.search_latest
        IN \A p \in Paths \cup {<<>>} :
              LET before == NodeAt(World, c.h, p, m)
                  after == NodeAt(WorldNext, c.h, p, FALSE)
              IN IF OnPath(p, c.path)
                 THEN /\ after.found
                      /\ after.node.persisted_as = NoCid
                      /\ IF before.found
                         THEN /\ after.node.header.ratchet
                                   = RatchetInc(before.node.header.ratchet)
                              /\ Cardinality(after.node.previous) = 1
                         ELSE IF amended
                              THEN /\ after.node.header.ratchet.step = 0
                                   /\ after.node.previous = {}
                              ELSE Cardinality(after.node.previous) = 1
                 ELSE LET aside == NodeAt(WorldNext, c.h, p, m)
                      IN before.found =>
                           /\ aside.found
                           /\ aside.node.persisted_as = before.node.persisted_as
                           /\ aside.node.header.ratchet = before.node.header.ratchet
                           /\ aside.node.previous = before.node.previous
                           /\ aside.node.content = before.node.content

\* C31: a successful write to p on a fully stored tree leaves the root, every
\* directory on p and the written file with persisted_as unset, the ratchet
\* one step ahead and one previous link, and every node off p with the
\* persisted_as, ratchet, previous links and content it had.
C31_FreshChain == [][FreshChain(FALSE)]_vars

\* C31 amended: the same for the nodes on p that were there, the tree before
\* being looked at with the search_latest setting of the write; a directory
\* or file that the write creates is at step zero with no previous link.
C31_FreshChainOfExisting == [][FreshChain(TRUE)]_vars

\* The stored tree was written at a/a: root, a and the file a/a are unstored,
\* one step on, with one previous link each, and b is as it was stored.
C31_Witness ==
    /\ Len(hist) = Len(ScriptCloned) + 1
    /\ Called(Len(hist), "write") /\ LastCall.path = <<"a", "a">> /\ LastCall.h = "root"
    /\ \A p \in {<<>>, <<"a">>, <<"a", "a">>} :
          /\ NodeAt(World, "root", p, FALSE).node.persisted_as = NoCid
          /\ NodeAt(World, "root", p, FALSE).node.header.ratchet.step = 1
          /\ Cardinality(NodeAt(World, "root", p, FALSE).node.previous) = 1
    /\ NodeAt(World, "root", <<"b">>, FALSE).node.persisted_as # NoCid

\* ------------------------------------------------------------------ a store that is abandoned

\* The calls a store may have completed when it is abandoned: the
\* put_block calls and the forest.put_encrypted calls of the tree of the
\* scripts (three nodes below the root, all of them unstored).
MaxStoreCalls == 24

Least(a, b) == IF a < b THEN a ELSE b

\* The mutant of HeaderStoreUpTo: the map block is put before the field blocks.
HeaderStoreMapFirst(h, blocks, k) ==
    LET full == HeaderStore(h, <<>>)
        order == <<HeaderMapCid(h), HeaderFieldCid("inumber", h),
                   HeaderFieldCid("ratchet", h), HeaderFieldCid("bare_name", h)>>
    IN [c \in {order[i] : i \in 1..Least(k, 4)} |-> full[c]] @@ blocks

\* PrivateNodeHeader::store abandoned after at most k of its put_block
\* calls: inumber, ratchet, bare_name, then the map.
HeaderStoreUpTo(h, blocks, k) ==
    LET full == HeaderStore(h, <<>>)
        order == <<HeaderFieldCid("inumber", h), HeaderFieldCid("ratchet", h),
                   HeaderFieldCid("bare_name", h), HeaderMapCid(h)>>
    IN [c \in {order[i] : i \in 1..Least(k, 4)} |-> full[c]] @@ blocks

\* PrivateDirectory::store on the node at address a, abandoned after at most
\* k calls: done tells whether the store ran to its end, k how many calls
\* the caller may still make.
RECURSIVE StoreNodeUpTo(_, _, _)
RECURSIVE StoreEntriesUpTo(_, _, _, _, _)
StoreEntriesUpTo(W, a, i, acc, k) ==
    IF i > Len(W.heap[a].entries) THEN [W |-> W, entries |-> acc, k |-> k, done |-> TRUE]
    ELSE With(W.heap[a].entries[i], LAMBDA e :
         With(DeriveTemporalKey(W.heap[a].header), LAMBDA temporal_key :
            IF e.link.tag = "ref"
            THEN StoreEntriesUpTo(W, a, i + 1,
                                  Append(acc, [name |-> e.name,
                                               ref |-> RefToSerializable(e.link.ref, temporal_key)]),
                                  k)
            ELSE With(StoreNodeUpTo(W, e.link.addr, k), LAMBDA c :
                 IF ~c.done THEN [W |-> c.W, entries |-> acc, k |-> 0, done |-> FALSE]
                 ELSE StoreEntriesUpTo(c.W, a, i + 1,
                                       Append(acc, [name |-> e.name,
                                                    ref |-> RefToSerializable(c.ref, temporal_key)]),
                                       c.k))))

StoreNodeUpTo(W, a, k) ==
    With(W.heap[a].header, LAMBDA header :
    With([W EXCEPT !.store = HeaderStoreUpTo(header, W.store, k)], LAMBDA W1 :
       IF k < 4 THEN [W |-> W1, k |-> 0, done |-> FALSE, ref |-> NoRef]
       ELSE With(IF W.heap[a].persisted_as # NoCid THEN [W |-> W1, k |-> k - 4, done |-> TRUE]
                 ELSE With(StoreEntriesUpTo(W1, a, 1, <<>>, k - 4), LAMBDA se :
                      IF ~se.done \/ se.k = 0 THEN [W |-> se.W, k |-> 0, done |-> FALSE]
                      ELSE With(se.W.heap[a], LAMBDA cell :
                           With(ContentCid(se.W.fresh + 1), LAMBDA new_cid :
                           With([kind |-> "content",
                                 key |-> DeriveSnapshotKey(DeriveTemporalKey(header)),
                                 node |-> [kind |-> cell.kind,
                                           version |-> WNFS_VERSION,
                                           previous |-> cell.previous,
                                           header_cid |-> HeaderMapCid(header),
                                           metadata |-> cell.metadata,
                                           entries |-> se.entries,
                                           content |-> cell.content]], LAMBDA block :
                              [W |-> SetCell([se.W EXCEPT !.fresh = @ + 1,
                                                          !.store = PutBlock(@, new_cid, block)],
                                             a, [cell EXCEPT !.persisted_as = new_cid]),
                               k |-> se.k - 1, done |-> TRUE])))),
                 LAMBDA content :
            IF ~content.done \/ content.k = 0
            THEN [W |-> content.W, k |-> 0, done |-> FALSE, ref |-> NoRef]
            ELSE With(content.W.heap[a].persisted_as, LAMBDA content_cid :
                 [W |-> [content.W EXCEPT
                           !.forest = PutEncrypted(@, GetSaturatedNameHash(header),
                                                   {HeaderMapCid(header), content_cid})],
                  k |-> content.k - 1, done |-> TRUE,
                  ref |-> AsPrivateRef(DeriveRevisionRef(header), content_cid)]))))

MaxAbandonOps == 3

AbandonCalls ==
    {CallWrite("root", <<"a", "b">>, FALSE, "Two"), CallMkdir("root", <<"b", "a">>, FALSE),
     CallRm("root", <<"a", "a">>, FALSE), CallStore("root")}

InitAbandon == \E s \in Starts : StartsAt(Run(s[1], s[2]))

AbandonCall == \E call \in AbandonCalls : clock < MaxAbandonOps /\ Step(call)

\* store through the handle root; its future is dropped after k calls.
AbandonedStore ==
    /\ clock < MaxAbandonOps
    /\ roots["root"] # NoAddr
    /\ \E k \in 0..MaxStoreCalls :
       \E r \in {StoreNodeUpTo(World, roots["root"], k)} :
          /\ heap' = Drop(r.W).heap
          /\ roots' = r.W.roots
          /\ forest' = r.W.forest
          /\ store' = r.W.store
          /\ fresh' = r.W.fresh
          /\ hist' = Append(hist, [call |-> [NoCall EXCEPT !.op = IF r.done THEN "store"
                                                                 ELSE "store_abandoned",
                                                           !.h = "root"],
                                   err |-> ""])
          /\ ret' = [ref |-> r.ref, node |-> NoNode]
          /\ clock' = clock + 1
          /\ UNCHANGED <<ord, sent, files, threads>>

NextAbandon == AbandonCall \/ AbandonedStore

SpecAbandon == InitAbandon /\ [][NextAbandon]_vars

\* Every header map block links to field blocks that are in the store, and
\* every CID of a forest entry is in the store.
PointersAfterBytes ==
    /\ \A cid \in DOMAIN store :
         store[cid].kind = "map" =>
            {store[cid].inumber, store[cid].ratchet, store[cid].bare_name} \subseteq DOMAIN store
    /\ \A label \in DOMAIN forest : forest[label] \subseteq DOMAIN store

Abandoned == hist' # hist /\ Calling.op = "store_abandoned"

\* The blocks the step has added to the store.
Left == DOMAIN store' \ DOMAIN store

\* The labels whose forest entry the step has changed.
Listed ==
    {label \in DOMAIN forest' : label \notin DOMAIN forest \/ forest'[label] # forest[label]}

\* C32: at every point of a store, also of one abandoned between two
\* block-store calls, the header map blocks in the store link only to
\* field blocks in the store and the forest lists only CIDs in the store;
\* no forest entry lists a block that an abandoned store has left.
C32_PointersAfterBytes ==
    /\ []PointersAfterBytes
    /\ [][Abandoned => \A label \in DOMAIN forest' : forest'[label] \cap Left = {}]_vars

\* C32 with its last sentence amended: the forest entries an abandoned store
\* has written are those of descendants whose own store ran to its end (the
\* header map and the content block of each are in the store), and no entry
\* is written for the directory whose store was abandoned.
C32_PointersAfterBytesOfFinished ==
    /\ []PointersAfterBytes
    /\ [][Abandoned =>
            /\ GetSaturatedNameHash(heap[roots["root"]].header) \notin Listed
            /\ \A label \in Listed :
                 \E a \in DOMAIN heap' :
                    /\ a # roots'["root"]
                    /\ label = GetSaturatedNameHash(heap'[a].header)
                    /\ heap'[a].persisted_as \in DOMAIN store'
                    /\ forest'[label] \ (IF label \in DOMAIN forest THEN forest[label] ELSE {})
                         \subseteq {HeaderMapCid(heap'[a].header), heap'[a].persisted_as}
            /\ \A label \in DOMAIN forest' \ Listed : forest'[label] \cap Left = {}]_vars

\* An abandoned store of the root has left the header of the root and the
\* whole revision of a child in the store, and no content block of the root.
C32_Witness ==
    /\ hist # <<>> /\ LastCall.op = "store_abandoned"
    /\ roots["root"] # NoAddr
    /\ heap[roots["root"]].persisted_as = NoCid
    /\ HeaderMapCid(heap[roots["root"]].header) \in DOMAIN store
    /\ GetSaturatedNameHash(heap[roots["root"]].header) \notin DOMAIN forest
    /\ \E a \in DOMAIN heap : a # roots["root"] /\ heap[a].persisted_as \in DOMAIN store

\* ------------------------------------------------------------------ the slot persisted_as

ContentBlocks(blocks) == {cid \in DOMAIN blocks : blocks[cid].kind = "content"}

\* A store through a handle: the first one of a revision puts one content
\* block and records its CID; a further one returns the same reference and
\* puts no content block, and the forest stays as it was.
StoreOnce ==
    (hist' # hist /\ Calling.op = "store") =>
       LET before == heap[roots[Calling.h]]
           after == heap'[roots'[Calling.h]]
       IN /\ after.persisted_as \in ContentBlocks(store')
          /\ ret'.ref = AsPrivateRef(DeriveRevisionRef(before.header), after.persisted_as)
          /\ IF before.persisted_as = NoCid
             THEN after.persisted_as \notin DOMAIN store
             ELSE /\ after.persisted_as = before.persisted_as
                  /\ ContentBlocks(store') = ContentBlocks(store)
                  /\ forest' = forest

MutatingOps == {"write", "mkdir", "rm", "cp", "basic_mv", "cp_link"}

\* A slot that held a CID holds none after a step only at a node that
\* prepare_next_revision has advanced (one previous link, the ratchet past
\* step zero) or whose key has been rotated (the ratchet at step zero).  The
\* nodes are those at each path of each handle; clone binds the other handle
\* to the tree it clones.
EmptiedByPreparing ==
    hist' # hist =>
       \A h \in Handles : \A p \in Paths \cup {<<>>} :
          (roots[h] # NoAddr /\ roots'[h] # NoAddr /\ (Calling.op = "clone" => h = Calling.h)) =>
             LET before == NodeAt(World, h, p, FALSE)
                 after == NodeAt(WorldNext, h, p, FALSE)
             IN (/\ after.found /\ after.node.persisted_as = NoCid
                 /\ before.found /\ before.node.persisted_as # NoCid) =>
                    /\ Calling.op \in MutatingOps
                    /\ \/ /\ Cardinality(after.node.previous) = 1
                          /\ after.node.header.ratchet.step > 0
                       \/ after.node.header.ratchet.step = 0

PublicHandles == {"file", "next"}

MaxPublicOps == 5

\* PublicFile::new
PublicFileNew(time, content_cid) ==
    [persisted_as |-> NoCid, metadata |-> MetadataNew(time), userland |-> content_cid,
     previous |-> {}]

\* impl Serialize for PublicFile
PublicFileSerialize(file) ==
    [version |-> WNFS_VERSION, metadata |-> file.metadata, userland |-> file.userland,
     previous |-> file.previous]

\* The CID put_serializable gives: the hash of the serialised bytes.
PublicCid(serializable) == [tag |-> "public", hdr |-> serializable, n |-> 0]

\* Rc::make_mut on the Rc that variable h holds.
PublicMakeMut(W, h) ==
    IF Cardinality({g \in PublicHandles : W.roots[g] = W.roots[h]}) > 1
    THEN With(NewAddr(W), LAMBDA b :
            [W EXCEPT !.heap = (b :> W.heap[W.roots[h]]) @@ @, !.roots[h] = b])
    ELSE W

\* The mutant of PublicFilePrepareNextRevision: the CID is added to the
\* previous links the file had.
PublicFilePrepareNextRevisionAdds(W, h) ==
    IF W.heap[W.roots[h]].persisted_as = NoCid THEN PublicMakeMut(W, h)
    ELSE With(W.heap[W.roots[h]].persisted_as, LAMBDA previous_cid :
         With(PublicMakeMut(W, h), LAMBDA W1 :
            [W1 EXCEPT !.heap[W1.roots[h]].persisted_as = NoCid,
                       !.heap[W1.roots[h]].previous = @ \cup {previous_cid}]))

\* PublicFile::prepare_next_revision
PublicFilePrepareNextRevision(W, h) ==
    IF W.heap[W.roots[h]].persisted_as = NoCid THEN PublicMakeMut(W, h)
    ELSE With(W.heap[W.roots[h]].persisted_as, LAMBDA previous_cid :
         With(PublicMakeMut(W, h), LAMBDA W1 :
            [W1 EXCEPT !.heap[W1.roots[h]].persisted_as = NoCid,
                       !.heap[W1.roots[h]].previous = {previous_cid}]))

\* PublicFile::store
PublicFileStore(W, h) ==
    IF W.heap[W.roots[h]].persisted_as # NoCid
    THEN [W |-> W, cid |-> W.heap[W.roots[h]].persisted_as]
    ELSE With(PublicFileSerialize(W.heap[W.roots[h]]), LAMBDA serializable :
            [W |-> [W EXCEPT !.store = PutBlock(@, PublicCid(serializable), serializable),
                             !.heap[W.roots[h]].persisted_as = PublicCid(serializable)],
             cid |-> PublicCid(serializable)])

\* The Rcs that are still held.
PublicDrop(W) ==
    [W EXCEPT !.heap = [a \in {W.roots[g] : g \in PublicHandles} \ {NoAddr} |-> W.heap[a]]]

PublicWorld == [heap |-> heap, roots |-> roots, store |-> store]

InitPublic ==
    /\ \E content_cid \in {ContentCid(1), ContentCid(2)} :
          heap = (1 :> PublicFileNew(0, content_cid))
    /\ roots = [h \in PublicHandles |-> IF h = "file" THEN 1 ELSE NoAddr]
    /\ store = <<>> /\ forest = <<>> /\ fresh = 0 /\ ord = <<>>
    /\ hist = <<>> /\ ret = NoCid /\ clock = 0
    /\ NoNetwork

PublicStep(op, h, W, cid) ==
    /\ clock < MaxPublicOps
    /\ heap' = PublicDrop(W).heap
    /\ roots' = W.roots
    /\ store' = W.store
    /\ hist' = Append(hist, [call |-> [NoCall EXCEPT !.op = op, !.h = h], err |-> ""])
    /\ ret' = cid
    /\ clock' = clock + 1
    /\ UNCHANGED <<forest, fresh, ord, sent, files, threads>>

DoPublicStore ==
    \E h \in PublicHandles :
       /\ roots[h] # NoAddr
       /\ PublicStep("store", h, PublicFileStore(PublicWorld, h).W,
                     PublicFileStore(PublicWorld, h).cid)

DoPublicPrepareNextRevision ==
    \E h \in PublicHandles :
       /\ roots[h] # NoAddr
       /\ PublicStep("prepare_next_revision", h,
                     PublicFilePrepareNextRevision(PublicWorld, h), ret)

\* Rc::clone: the other variable holds the same Rc.
DoRcClone ==
    \E h \in PublicHandles :
       /\ roots[h] # NoAddr
       /\ PublicStep("rc_clone", h,
                     [PublicWorld EXCEPT !.roots = [g \in PublicHandles |-> roots[h]]], ret)

\* impl Clone for PublicFile, the copy put behind a new Rc that the other
\* variable holds.
DoPublicClone ==
    \E h \in PublicHandles :
       /\ roots[h] # NoAddr
       /\ PublicStep("clone", h,
                     With(NewAddr(PublicWorld), LAMBDA b :
                        [PublicWorld EXCEPT
                           !.heap = (b :> heap[roots[h]]) @@ @,
                           !.roots = [g \in PublicHandles |-> IF g = h THEN roots[h] ELSE b]]),
                     ret)

NextPublic == DoPublicStore \/ DoPublicPrepareNextRevision \/ DoRcClone \/ DoPublicClone

SpecPublic == InitPublic /\ [][NextPublic]_vars

\* prepare_next_revision through h: a stored file gets the CID it was stored
\* under as its only previous link and an empty persisted_as; a file that
\* is not stored stays as it is; metadata and userland stay, and so does
\* the file of the other variable.
PreparesPublic ==
    (hist' # hist /\ Calling.op = "prepare_next_revision") =>
       LET h == Calling.h
           before == heap[roots[h]]
           after == heap'[roots'[h]]
       IN /\ IF before.persisted_as # NoCid
             THEN after = [before EXCEPT !.persisted_as = NoCid,
                                         !.previous = {before.persisted_as}]
             ELSE after = before
          /\ (hist # <<>> /\ LastCall.op = "store" /\ LastCall.h = h) => after.previous = {ret}
          /\ \A g \in PublicHandles \ {h} :
                roots[g] # NoAddr => roots'[g] # NoAddr /\ heap'[roots'[g]] = heap[roots[g]]

\* store through h returns the CID that persisted_as then holds, of a block
\* in the store.
StoresPublic ==
    (hist' # hist /\ Calling.op = "store") =>
       /\ ret' = heap'[roots'[Calling.h]].persisted_as
       /\ ret' \in DOMAIN store'
       /\ store'[ret'] = PublicFileSerialize(heap[roots[Calling.h]])

\* C34: prepare_next_revision of a PublicFile that has been stored sets
\* previous to exactly the stored CID and clears persisted_as; applied
\* again without a store in between it changes nothing.
C34_PublicPrevious == [][PreparesPublic /\ StoresPublic]_vars

\* A file with a previous link was stored and prepared, and prepared once
\* more: its only previous link is the CID of the second store.
C34_Witness ==
    /\ Len(hist) = 5
    /\ \A i \in {1, 3} : hist[i].call.op = "store" /\ hist[i].call.h = "file"
    /\ \A i \in {2, 4, 5} : hist[i].call.op = "prepare_next_revision" /\ hist[i].call.h = "file"
    /\ heap[roots["file"]].previous = {ret}
    /\ heap[roots["file"]].persisted_as = NoCid
    /\ store[ret].previous # {}

\* ------------------------------------------------------------------ key rotation

MaxRotationOps == 3

\* The bare names of a new parent.
RotationParents == {{}, {7}, {1, 7}}

\* The mutant of PrepareKeyRotation: the inumber stays.
PrepareKeyRotationKeepsInumber(dir, parent_bare_name, inumber, ratchet_seed) ==
    [dir EXCEPT !.header = ResetRatchet(UpdateBareName(dir.header, parent_bare_name),
                                        ratchet_seed),
                !.persisted_as = NoCid]

\* PrivateDirectory::prepare_key_rotation; inumber and ratchet_seed are the
\* bytes drawn from rng.
PrepareKeyRotation(dir, parent_bare_name, inumber, ratchet_seed) ==
    [dir EXCEPT !.header = ResetRatchet(UpdateBareName([dir.header EXCEPT !.inumber = inumber],
                                                       parent_bare_name),
                                        ratchet_seed),
                !.persisted_as = NoCid]

RotationCalls ==
    {CallStore("root"), CallClone("root"), CallWrite("root", <<"a", "a">>, FALSE, "Two"),
     CallRm("clone", <<"b">>, FALSE)}

InitRotation == \E s \in Starts : StartsAt(Run(s[1], s[2]))

RotationCall == \E call \in RotationCalls : clock < MaxRotationOps /\ Step(call)

\* prepare_key_rotation on the directory that handle h holds, made the
\* handle's own first.
DoPrepareKeyRotation ==
    \E h \in Handles, parent_bare_name \in RotationParents :
       /\ clock < MaxRotationOps
       /\ roots[h] # NoAddr
       /\ \E W \in {MakeMut(World, RootSlot(h))} :
             /\ heap' = [W.heap EXCEPT ![W.roots[h]] =
                            PrepareKeyRotation(@, parent_bare_name, fresh + 1, fresh + 2)]
             /\ roots' = W.roots
       /\ fresh' = fresh + 2
       /\ hist' = Append(hist, [call |-> [op |-> "prepare_key_rotation", h |-> h,
                                          path |-> <<>>, to |-> <<>>, search_latest |-> FALSE,
                                          content |-> "",
                                          parent_bare_name |-> parent_bare_name],
                                err |-> ""])
       /\ ret' = [ref |-> NoRef, node |-> NoNode]
       /\ clock' = clock + 1
       /\ UNCHANGED <<forest, store, ord, sent, files, threads>>

NextRotation == RotationCall \/ DoPrepareKeyRotation

SpecRotation == InitRotation /\ [][NextRotation]_vars

\* What prepare_key_rotation does to the directory of handle h, to the
\* nodes below it and to the tree of the other handle.
Rotates ==
    (hist' # hist /\ Calling.op = "prepare_key_rotation") =>
       LET h == Calling.h
           before == heap[roots[h]]
           after == heap'[roots'[h]]
       IN /\ \A a \in DOMAIN heap : /\ after.header.inumber # heap[a].header.inumber
                                    /\ after.header.ratchet.seed # heap[a].header.ratchet.seed
          /\ after.header.bare_name
                = NamefilterAdd(Calling.parent_bare_name, after.header.inumber)
          /\ after.header.ratchet.step = 0
          /\ after.persisted_as = NoCid
          /\ after.entries = before.entries
          /\ after.metadata = before.metadata
          /\ after.previous = before.previous
          /\ \A p \in Paths :
                NodeAt(World, h, p, FALSE).found =>
                   NodeAt(WorldNext, h, p, FALSE) = NodeAt(World, h, p, FALSE)
          /\ \A g \in Handles \ {h} :
                roots[g] # NoAddr =>
                   Subtree(WorldNext, heap'[roots'[g]]) = Subtree(World, heap[roots[g]])

\* C35: prepare_key_rotation gives the directory a fresh inumber, the bare
\* name of the new parent with that inumber added, a ratchet at step zero
\* of a fresh seed and an empty persisted_as, and leaves its entries,
\* metadata and previous links and the headers of its descendants as they were.
C35_KeyRotation == [][Rotates]_vars

\* A stored and rewritten directory, shared with a clone, has had its key
\* rotated: it keeps its previous link and its entries, and the clone still
\* holds the stored revision.
C35_Witness ==
    /\ hist # <<>> /\ LastCall.op = "prepare_key_rotation" /\ LastCall.h = "root"
    /\ LastCall.parent_bare_name = {1, 7}
    /\ roots["clone"] # NoAddr
    /\ heap[roots["clone"]].persisted_as # NoCid
    /\ heap[roots["root"]].persisted_as = NoCid
    /\ heap[roots["root"]].previous # {}
    /\ heap[roots["root"]].entries # <<>>
    /\ heap[roots["root"]].header.ratchet.step = 0
    /\ heap[roots["root"]].header.inumber \notin {heap[a].header.inumber : a \in DOMAIN heap \ {roots["root"]}}

\* ------------------------------------------------------------------ the borrows of send_request

\* The calls of the client that came as far as send_request: put_block of a
\* block that has a CID, and get_block of a URI that parsed.
CameToSend(i) ==
    \/ hist[i].op = "put_block" /\ Len(hist[i].bytes) <= MAX_BLOCK_SIZE
    \/ hist[i].op = "get_block" /\ hist[i].err # "InvalidUri"

\* C36: send_request never has two mutable borrows of request_sender out at
\* once, so no call of put_block or get_block that comes to send_request
\* ends in a borrow panic.
C36_OneBorrow ==
    \A i \in 1..Len(hist) : CameToSend(i) => hist[i].err # "BorrowMutError"

\* get_block of a CID, the URI parsed, has panicked on the second borrow
\* with nothing sent.
C36_Witness ==
    /\ Len(hist) = 1 /\ hist[1].op = "get_block" /\ CameToSend(1)
    /\ hist[1].end = "panic" /\ hist[1].err = "BorrowMutError" /\ sent = <<>>

\* ------------------------------------------------------------------ a move that fails half way

\* A basic_mv whose rm has succeeded and whose attach has failed.
HalfMoved ==
    /\ hist' # hist /\ Calling.op = "basic_mv"
    /\ hist'[Len(hist')].err # ""
    /\ Rm(World, Calling.h, Calling.path, Calling.search_latest).err = ""

\* The headers of the nodes of the tree of handle h.
HeadersOf(W, h) == {n.header : n \in Subtree(W, W.heap[W.roots[h]])}

\* C37: basic_mv is rm followed by attach, with no rollback: when rm
\* succeeds and attach fails, the error of attach is returned, the source
\* entry is gone and the removed node is nowhere in the tree.
C37_NoRollback ==
    [][HalfMoved =>
         LET c == Calling
             removed == Rm(World, c.h, c.path, c.search_latest)
         IN /\ hist'[Len(hist')].err
                 = Attach(removed.W, removed.node, c.h, c.to, c.search_latest,
                          Len(hist) + 1).err
            /\ ~NodeAt(WorldNext, c.h, c.path, FALSE).found
            /\ removed.node.header \notin HeadersOf(WorldNext, c.h)]_vars

\* C37 amended: the removed node is in the tree afterwards only where it
\* was linked besides the source entry (cp_link links one node at two places).
C37_NoRollbackButLinks ==
    [][HalfMoved =>
         LET c == Calling
             removed == Rm(World, c.h, c.path, c.search_latest)
         IN /\ hist'[Len(hist')].err
                 = Attach(removed.W, removed.node, c.h, c.to, c.search_latest,
                          Len(hist) + 1).err
            /\ ~NodeAt(WorldNext, c.h, c.path, FALSE).found
            /\ (removed.node.header \in HeadersOf(WorldNext, c.h)) =>
                  \E i \in 1..Len(hist) : hist[i].call.op = "cp_link" /\ hist[i].err = ""]_vars

\* The directory a was moved onto b, which exists: FileAlreadyExists was
\* returned and the tree holds b alone.
C37_Witness ==
    /\ Len(hist) = Len(ScriptTree) + 1
    /\ LastCall.op = "basic_mv" /\ LastCall.path = <<"a">> /\ LastCall.to = <<"b">>
    /\ hist[Len(hist)].err = "FileAlreadyExists"
    /\ ~NodeAt(World, "root", <<"a">>, FALSE).found
    /\ NodeAt(World, "root", <<"b">>, FALSE).found
    /\ Cardinality(HeadersOf(World, "root")) = 2

\* ------------------------------------------------------------------ a call that fails after the walk

\* The directory whose entry the call is about: the parent of the path of
\* rm, and of the destination of cp (which goes through attach).
WalkedTo(call) == Front(IF call.op = "rm" THEN call.path ELSE call.to)

\* The paths of the directories the call walks, the root included.
Walked(call) == {Prefix(WalkedTo(call), k) : k \in 0..Len(WalkedTo(call))}

\* A node without the addresses of its links.
Shape(node) == [node EXCEPT !.entries = NamesOf(node.entries)]

\* rm has returned NotFound for a last segment that its parent does not
\* hold, or attach has returned FileAlreadyExists; m tells whether the tree
\* before is looked at with the search_latest setting of the call.
FailedAfterWalk(m) ==
    /\ hist' # hist
    /\ \/ /\ Calling.op = "rm" /\ hist'[Len(hist')].err = "NotFound"
          /\ NodeAt(World, Calling.h, WalkedTo(Calling), m /\ Calling.search_latest).found
          /\ NodeAt(World, Calling.h, WalkedTo(Calling), m /\ Calling.search_latest).node.kind = "dir"
          /\ ~NodeAt(World, Calling.h, Calling.path, m /\ Calling.search_latest).found
       \/ Calling.op = "cp" /\ hist'[Len(hist')].err = "FileAlreadyExists"

\* No node of the tree of handle h is stored or has a previous link.
NeverStored(W, h) ==
    \A n \in Subtree(W, W.heap[W.roots[h]]) : n.persisted_as = NoCid /\ n.previous = {}

\* What the failed call has done to the tree of its handle.
BumpsOnFailure(amended) ==
    FailedAfterWalk(amended) =>
       LET c == Calling
           m == amended /\ c.search_latest
       IN /\ FullyStored(World, c.h) =>
               \A p \in Paths \cup {<<>>} :
                  LET before == NodeAt(World, c.h, p, m)
                      after == NodeAt(WorldNext, c.h, p, FALSE)
                  IN before.found =>
                       /\ after.found
                       /\ NamesOf(after.node.entries) = NamesOf(before.node.entries)
                       /\ p \in Walked(c) =>
                            /\ after.node.persisted_as = NoCid
                            /\ after.node.header.ratchet
                                 = RatchetInc(before.node.header.ratchet)
                            /\ Cardinality(after.node.previous) = 1
          /\ NeverStored(World, c.h) =>
               \A p \in Paths \cup {<<>>} :
                  LET before == NodeAt(World, c.h, p, FALSE)
                      after == NodeAt(WorldNext, c.h, p, FALSE)
                  IN /\ after.found = before.found
                     /\ before.found => Shape(after.node) = Shape(before.node)

\* C38: on a stored tree an rm that returns NotFound for an absent last
\* segment, and an attach that returns FileAlreadyExists, leave the entries
\* of every directory as they were and the root and every directory walked
\* with persisted_as cleared, the ratchet one step on and one previous
\* link; on a tree never stored the failed call changes nothing.
C38_FailedCallBumps == [][BumpsOnFailure(FALSE)]_vars

\* C38 amended: the same, the tree before being looked at with the
\* search_latest setting of the call.
C38_FailedCallBumpsLatest == [][BumpsOnFailure(TRUE)]_vars

\* On the stored tree rm of a/b has returned NotFound: the root and a are
\* unstored, one step on, with one previous link, and a still holds a alone.
C38_Witness ==
    /\ Len(hist) = Len(ScriptCloned) + 1
    /\ LastCall.op = "rm" /\ LastCall.path = <<"a", "b">> /\ LastCall.h = "root"
    /\ hist[Len(hist)].err = "NotFound"
    /\ \A p \in {<<>>, <<"a">>} :
          /\ NodeAt(World, "root", p, FALSE).node.persisted_as = NoCid
          /\ NodeAt(World, "root", p, FALSE).node.header.ratchet.step = 1
          /\ Cardinality(NodeAt(World, "root", p, FALSE).node.previous) = 1
    /\ NamesOf(NodeAt(World, "root", <<"a">>, FALSE).node.entries) = {"a"}
    /\ NodeAt(World, "root", <<"b">>, FALSE).node.persisted_as # NoCid

\* ------------------------------------------------------------------ a server that answers

\* The connections of a server whose clients wait for the response.
MaxWaiting == 2

\* Complete requests, long enough for the line the server prints.
CompleteRequests ==
    {WriteRequest(LongCid, <<5>>), WriteRequest(LongCid, <<6, 7>>), ReadRequest(LongCid)}

\* listen accepts a connection and spawns its thread, which calls
\* stream.read_to_end; the client has sent the request buf and keeps the
\* connection open in both directions (shut tells whether it has shut down
\* its sending side).
Connect ==
    \E buf \in CompleteRequests :
       /\ Len(threads) < MaxWaiting
       /\ threads' = Append(threads,
             [buf |-> buf, pc |-> "read_to_end", shut |-> FALSE, end |-> "", err |-> "",
              pos |-> 0, data |-> <<>>, out |-> <<>>, began |-> clock + 1, ended |-> 0])
       /\ clock' = clock + 1
       /\ files' = files
       /\ ServerUnchanged

\* The client of connection i shuts down its sending side.
ClientShutdown(i) ==
    /\ i <= Len(threads)
    /\ threads[i].pc = "read_to_end" /\ ~threads[i].shut
    /\ threads' = [threads EXCEPT ![i].shut = TRUE]
    /\ UNCHANGED <<clock, files>>
    /\ ServerUnchanged

\* stream.read_to_end of thread i returns when the stream is at its end,
\* which is when the client has shut down its sending side; the request is
\* then parsed.
ReadToEnd(i) ==
    /\ i <= Len(threads)
    /\ threads[i].pc = "read_to_end" /\ threads[i].shut
    /\ threads' = [threads EXCEPT ![i].pc = IF write_mode(threads[i].buf) THEN "create" ELSE "open"]
    /\ UNCHANGED <<clock, files>>
    /\ ServerUnchanged

Shutdowns == \E i \in 1..MaxWaiting : ClientShutdown(i)
Reads == \E i \in 1..MaxWaiting : ReadToEnd(i)

NextWaiting == Connect \/ Shutdowns \/ Reads \/ Create \/ WriteSome \/ Open \/ ReadSome

\* A step of the handler thread of connection i.
Handler(i) ==
    \/ ReadToEnd(i)
    \/ /\ Create \/ WriteSome \/ Open \/ ReadSome
       /\ i <= Len(threads) /\ threads'[i] # threads[i]

\* Every handler thread is scheduled as long as it can run; nothing makes a
\* client shut down its sending side.
SpecWaiting ==
    InitServer /\ [][NextWaiting]_vars /\ \A i \in 1..MaxWaiting : WF_vars(Handler(i))

Waits(i) == i <= Len(threads) /\ write_mode(threads[i].buf)
Answered(i) == i <= Len(threads) /\ threads[i].end = "Ok" /\ threads[i].out = <<1>>

\* C39: a client that has sent one complete request and waits on the open
\* connection, its sending side not shut down, gets the response in the
\* end; here for the writes, whose response is the byte 1.
C39_AnswersEventually == \A i \in 1..MaxWaiting : Waits(i) ~> Answered(i)

\* Each connection has a thread of its own: a client that has shut down
\* its sending side gets the response of its write whatever the other
\* connections do.
AnswersAfterShutdown ==
    \A i \in 1..MaxWaiting : (Waits(i) /\ threads[i].shut) ~> Answered(i)

\* The first client waits with its sending side open and its thread is
\* still in read_to_end, while the second, which has shut down, has its
\* write acknowledged.
C39_Witness ==
    /\ Len(threads) = 2
    /\ threads[1].pc = "read_to_end" /\ ~threads[1].shut /\ write_mode(threads[1].buf)
    /\ threads[2].end = "Ok" /\ threads[2].out = <<1>> /\ threads[2].began > threads[1].began

====
